---- MODULE Spec2Model ----
(***************************************************************************)
(* Parallel sample sort of parlaylib (include/parlay/internal/sample_sort.h) *)
(* with the relocation primitives it is built on                           *)
(* (include/parlay/destructive_move.h, include/parlay/utilities.h).         *)
(*                                                                         *)
(* Memory is modelled slot by slot.  A slot is a record [st, key, id]:     *)
(* st is "init" for a live object and "uninit" otherwise; key is what the  *)
(* comparator looks at and id tells apart elements with equal keys (it is  *)
(* the element's position in the caller's sequence).  A slot that was      *)
(* relocated out bitwise keeps its bytes (key, id); a slot whose object    *)
(* was destroyed, or that was never constructed, holds Raw.                *)
(***************************************************************************)
EXTENDS Integers, Sequences, FiniteSets, TLC

\* ---------------------------------------------------------------- bounds
\* longest caller sequence
MaxLen == 3

\* QUICKSORT_THRESHOLD at the scale of the inputs explored (16384 in the source):
\* the longest inputs take the full path, the shorter ones the base path
ScaledThreshold == MaxLen

\* the num_blocks and num_buckets explored on the full path
BlockCounts == {2}
BucketCounts == {2, 3}

\* ------------------------------------------------------------- constants
OVER_SAMPLE == 8

\* The comparator sees only the order of the keys, so the keys 1..MaxLen give
\* every weak order a sequence of MaxLen elements can have.
Keys == 1..MaxLen

\* Element types, after test/test_destructive_move.cpp and debug_uninitialized.h:
\*   "int"  trivially move constructible and trivially destructible, sizeof <= 8
\*   "str"  user-provided move constructor and destructor, sizeof > 8
ElemTypes == {"int", "str"}

\* the three element types of test/test_destructive_move.cpp
MoveTypes ==
  {"NotTriviallyDestructiveMovable", "TriviallyDestructiveMovable",
   "MyTriviallyDestructiveMovable"}

\* std::is_trivially_move_constructible<T>: no user-provided move constructor
is_trivially_move_constructible(T) == T \in {"int", "TriviallyDestructiveMovable"}

\* std::is_trivially_destructible<T>: no user-provided destructor
is_trivially_destructible(T) ==
  T \in {"int", "TriviallyDestructiveMovable", "NotTriviallyDestructiveMovable"}

\* the explicit specialization of the trait to std::true_type
specialized_true(T) == T = "MyTriviallyDestructiveMovable"

\* the primary template alone, as if no specialization were seen
primary_template_only(T) ==
  is_trivially_move_constructible(T) /\ is_trivially_destructible(T)

is_trivially_destructive_movable(T) ==
  \/ is_trivially_move_constructible(T) /\ is_trivially_destructible(T)
  \/ specialized_true(T)

\* sizeof(value_type) > 8 || std::is_pointer<value_type>::value
BigOrPointer(typ) == typ = "str"

Slot(k, i) == [st |-> "init", key |-> k, id |-> i]
Raw == [st |-> "uninit", key |-> 0, id |-> 0]
Stale(v) == [st |-> "uninit", key |-> v.key, id |-> v.id]

\* the comparator: a strict weak order on the keys
less(a, b) == a.key < b.key

Arrays == {"A", "R", "Tmp", "sample_set", "pivots"}

Min(a, b) == IF a < b THEN a ELSE b

RECURSIVE SumSeq(_)
SumSeq(s) == IF s = <<>> THEN 0 ELSE Head(s) + SumSeq(Tail(s))

Reverse(s) == [i \in 1..Len(s) |-> s[Len(s) + 1 - i]]

\* ------------------------------------------------- the heap and its ledger
\* A heap h is [mem, cons, gone, faults]: mem[a] the slots of array a, cons[a][i]
\* the number of objects constructed in slot i of a, gone[a][i] the number of
\* objects that left it (relocated out or destroyed), faults the misuses seen.

Fresh(len) == [i \in 1..len |-> Raw]
Zeros(len) == [i \in 1..len |-> 0]

\* sequence<T>::uninitialized(n) and uninitialized_sequence<T>(n)
Allocate(h, a, len) ==
  [h EXCEPT !.mem[a] = Fresh(len), !.cons[a] = Zeros(len), !.gone[a] = Zeros(len)]

ReadFault(h, a, i) == IF h.mem[a][i].st = "init" THEN {} ELSE {"read_uninit"}

\* placement new of a copy of value v in slot i of a
Construct(h, a, i, v) ==
  [h EXCEPT !.mem[a][i] = Slot(v.key, v.id),
            !.cons[a][i] = @ + 1,
            !.faults = @ \cup (IF h.mem[a][i].st = "init" THEN {"construct_over_init"} ELSE {})]

\* x.~T()
Destroy(h, a, i, typ) ==
  IF is_trivially_destructive_movable(typ)
  THEN [h EXCEPT !.mem[a][i] = Stale(@), !.gone[a][i] = @ + 1]
  ELSE [h EXCEPT !.mem[a][i] = Raw,
                 !.gone[a][i] = @ + 1,
                 !.faults = @ \cup (IF h.mem[a][i].st = "init" THEN {} ELSE {"destroy_uninit"})]

\* an assignment that moves the source out instead of copying it
move_from_source(h, da, di, sa, si) ==
  LET h1 == [h EXCEPT !.faults = @ \cup ReadFault(h, sa, si)]
      h2 == Construct(h1, da, di, h.mem[sa][si])
  IN  [h2 EXCEPT !.mem[sa][si] = Stale(@), !.gone[sa][si] = @ + 1]

\* new (a) T(b)
assign_uninitialized(h, da, di, sa, si) ==
  LET h1 == [h EXCEPT !.faults = @ \cup ReadFault(h, sa, si)]
  IN  Construct(h1, da, di, h.mem[sa][si])

\* a relocation that constructs *to and leaves *from alive
construct_only(h, da, di, sa, si, typ) ==
  LET h1 == [h EXCEPT !.faults = @ \cup ReadFault(h, sa, si)]
  IN  Construct(h1, da, di, h.mem[sa][si])

\* memcpy for a trivially relocatable type, else move construction of *to followed
\* by the destructor of *from
destructive_move(h, da, di, sa, si, typ) ==
  LET h1 == [h EXCEPT !.faults = @ \cup ReadFault(h, sa, si)]
      h2 == Construct(h1, da, di, h.mem[sa][si])
  IN  IF is_trivially_destructive_movable(typ)
      THEN [h2 EXCEPT !.mem[sa][si] = Stale(@), !.gone[sa][si] = @ + 1]
      ELSE Destroy(h2, sa, si, typ)

assign_dispatch(h, da, di, sa, si, tag, typ) ==
  IF tag = "uninitialized_copy_tag"
  THEN assign_uninitialized(h, da, di, sa, si)
  ELSE destructive_move(h, da, di, sa, si, typ)

\* uninitialized_relocate_n(to, from, n)
RECURSIVE uninitialized_relocate_n(_, _, _, _, _, _, _)
uninitialized_relocate_n(h, da, dlo, sa, slo, len, typ) ==
  IF len = 0 THEN h
  ELSE uninitialized_relocate_n(destructive_move(h, da, dlo, sa, slo, typ),
                                da, dlo + 1, sa, slo + 1, len - 1, typ)

\* ------------------------------------------------------ sequential sorts
RECURSIVE Insert(_, _)
Insert(s, x) ==
  IF s = <<>> THEN <<x>>
  ELSE IF less(x, Head(s)) THEN <<x>> \o s
  ELSE <<Head(s)>> \o Insert(Tail(s), x)

RECURSIVE StableSort(_)
StableSort(s) ==
  IF s = <<>> THEN <<>>
  ELSE Insert(StableSort(SubSeq(s, 1, Len(s) - 1)), s[Len(s)])

\* The order an unstable sort leaves equivalent elements in is not determined:
\* "keep" keeps them in their order, "flip" reverses them.
Orders == {"keep", "flip"}

quicksort(s, ord) == IF ord = "keep" THEN StableSort(s) ELSE StableSort(Reverse(s))

bucket_sort(s, stable, ord) == IF stable THEN StableSort(s) ELSE quicksort(s, ord)

Splice(s, lo, t) ==
  [p \in 1..Len(s) |-> IF p >= lo /\ p < lo + Len(t) THEN t[p - lo + 1] ELSE s[p]]

UninitIn(h, a, lo, len) == {p \in lo..(lo + len - 1) : h.mem[a][p].st # "init"}

\* a sequential sort that takes quicksort for every large type
quicksort_if_big(h, a, lo, len, stable, typ, ord) ==
  LET vals == SubSeq(h.mem[a], lo, lo + len - 1)
      sorted == IF BigOrPointer(typ)
                THEN quicksort(vals, ord)
                ELSE bucket_sort(vals, stable, ord)
  IN  [h EXCEPT !.mem[a] = Splice(@, lo, sorted),
                !.faults = @ \cup (IF UninitIn(h, a, lo, len) = {} THEN {} ELSE {"read_uninit"})]

\* a sequential sort that takes quicksort whatever stable is
quicksort_always(h, a, lo, len, stable, typ, ord) ==
  LET vals == SubSeq(h.mem[a], lo, lo + len - 1)
  IN  [h EXCEPT !.mem[a] = Splice(@, lo, quicksort(vals, ord)),
                !.faults = @ \cup (IF UninitIn(h, a, lo, len) = {} THEN {} ELSE {"read_uninit"})]

\* sorts slots lo .. lo+len-1 of array a in place
seq_sort_inplace(h, a, lo, len, stable, typ, ord) ==
  LET vals == SubSeq(h.mem[a], lo, lo + len - 1)
      sorted == IF BigOrPointer(typ) /\ ~stable
                THEN quicksort(vals, ord)
                ELSE bucket_sort(vals, stable, ord)
  IN  [h EXCEPT !.mem[a] = Splice(@, lo, sorted),
                !.faults = @ \cup (IF UninitIn(h, a, lo, len) = {} THEN {} ELSE {"read_uninit"})]

RECURSIVE assign_loop(_, _, _, _, _, _, _, _)
assign_loop(h, tag, sa, slo, da, dlo, len, typ) ==
  IF len = 0 THEN h
  ELSE assign_loop(assign_dispatch(h, da, dlo, sa, slo, tag, typ),
                   tag, sa, slo + 1, da, dlo + 1, len - 1, typ)

seq_sort_(h, tag, sa, slo, da, dlo, len, stable, typ, ord) ==
  seq_sort_inplace(assign_loop(h, tag, sa, slo, da, dlo, len, typ),
                   da, dlo, len, stable, typ, ord)

\* ------------------------------------------------------ get_bucket_counts
\* The walk of the sorted block sA against the sorted pivots sB; ia and ib are the
\* positions of itA and itB (itC moves with itB), at is the inner loop running.
\* line 39 left out: the counts as they were found
left_as_found(sC) == sC

\* line 39: for (auto& c : sC) c = 0
zeroed(sC) == [i \in 1..Len(sC) |-> 0]

\* the loop of line 51 run for no element
never_with_equal_pivot(p, a) == FALSE

\* the loop of line 51 run for every element left
all_with_equal_pivot(p, a) == TRUE

\* line 51: the test of the loop between two equivalent pivots, !f(*itB, *itA)
with_equal_pivot(p, a) == ~less(p, a)

\* line 62 one short
one_short(sA, ia) == Len(sA) - ia

\* line 62: sA.end() - itA
remaining(sA, ia) == Len(sA) - ia + 1

RECURSIVE merge_walk(_, _, _, _, _, _)
merge_walk(sA, sB, sC, ia, ib, at) ==
  IF at = "below"
  THEN IF less(sA[ia], sB[ib])
       THEN LET c1 == [sC EXCEPT ![ib] = @ + 1]
            IN  IF ia + 1 > Len(sA) THEN c1 ELSE merge_walk(sA, sB, c1, ia + 1, ib, "below")
       ELSE IF ib + 1 > Len(sB)
            THEN [sC EXCEPT ![ib + 1] = remaining(sA, ia)]
            ELSE IF ~less(sB[ib], sB[ib + 1])
                 THEN merge_walk(sA, sB, sC, ia, ib + 1, "equal")
                 ELSE merge_walk(sA, sB, sC, ia, ib + 1, "below")
  ELSE IF with_equal_pivot(sB[ib], sA[ia])
       THEN LET c1 == [sC EXCEPT ![ib] = @ + 1]
            IN  IF ia + 1 > Len(sA) THEN c1 ELSE merge_walk(sA, sB, c1, ia + 1, ib, "equal")
       ELSE IF ib + 1 > Len(sB)
            THEN [sC EXCEPT ![ib + 1] = remaining(sA, ia)]
            ELSE merge_walk(sA, sB, sC, ia, ib + 1, "below")

get_bucket_counts(sA, sB, sC) ==
  IF Len(sA) = 0 \/ Len(sB) = 0 THEN sC
  ELSE merge_walk(sA, sB, zeroed(sC), 1, 1, "below")

\* ------------------------------------------------------------ the program
VARIABLES
  pc,              \* where the call is
  variant,         \* "copy": sample_sort, "inplace": sample_sort_inplace
  stable,          \* the stable argument of sample_sort
  typ,             \* the element type
  orig,            \* the caller's sequence at the call, as slots
  heap,            \* the arrays A (caller's), R (returned), Tmp, sample_set, pivots
  num_blocks,
  num_buckets,
  counts,          \* the count matrix, row-major, plus the sentinel; -1 is unwritten
  bucket_offsets,
  blocksDone,      \* blocks whose task has run
  bucketsDone,     \* buckets whose final task has run
  swap_i,          \* loop index of the in-place sampling loop
  thrown,          \* an exception left the call and the call was unwound
  mv,              \* a call of destructive_move or destructive_move_array
  fn               \* a call of one of the other functions, followed on its own

vars == <<pc, variant, stable, typ, orig, heap, num_blocks, num_buckets, counts,
          bucket_offsets, blocksDone, bucketsDone, swap_i, thrown, mv, fn>>

n == Len(orig)

\* size_t block_size = ((n - 1) / num_blocks) + 1;
block_size == ((n - 1) \div num_blocks) + 1

\* copying: num_buckets * OVER_SAMPLE; in place: block_size
sample_set_size == IF variant = "copy" THEN num_buckets * OVER_SAMPLE ELSE block_size

\* size_t stride = sample_set_size / (num_buckets - 1);
stride == sample_set_size \div (num_buckets - 1)

m == num_blocks * num_buckets

\* Out: R for the copying driver, the caller's sequence in place
Out == IF variant = "copy" THEN "R" ELSE "A"

\* The block and bucket counts of the full path.  Lines 110-113 derive them from
\* sqrt(n) for n >= 16384; at the lengths explored here they are drawn from the
\* shapes that derivation yields: num_blocks a power of two, every block
\* non-empty, at least one pivot, and (in place, line 120) no more pivots than
\* samples.
Geometries(len, var) ==
  {g \in BlockCounts \X BucketCounts :
     LET bs == ((len - 1) \div g[1]) + 1
     IN  /\ (g[1] - 1) * bs < len
         /\ (var = "inplace" => bs >= g[2] - 1)}

\* the caller's sequences, up to the order of their keys: the keys used are 1..j
Inputs ==
  UNION {{ks \in [1..len -> Keys] :
            {ks[i] : i \in 1..len} = 1..Cardinality({ks[i] : i \in 1..len})} :
         len \in 0..MaxLen}

AsSlots(ks) == [i \in 1..Len(ks) |-> Slot(ks[i], i)]

EmptyHeap ==
  [mem |-> [a \in Arrays |-> <<>>], cons |-> [a \in Arrays |-> <<>>],
   gone |-> [a \in Arrays |-> <<>>], faults |-> {}]

\* no other function is being followed
NoCall == [f |-> "none"]

\* no relocation call is being followed
NoRelocation ==
  [pc |-> "off", op |-> "none", T |-> "int", size |-> 0, sz |-> 0, chunk_size |-> 0, todo |-> {}, from |-> <<>>, to |-> <<>>,
   cells |-> <<>>, log |-> <<>>]

Init ==
  /\ pc = "call"
  /\ variant \in {"copy", "inplace"}
  /\ stable \in (IF variant = "copy" THEN BOOLEAN ELSE {FALSE})
  /\ typ \in ElemTypes
  /\ \E ks \in Inputs :
       /\ orig = AsSlots(ks)
       /\ heap = [EmptyHeap EXCEPT !.mem["A"] = AsSlots(ks),
                                   !.cons["A"] = [i \in 1..Len(ks) |-> 1],
                                   !.gone["A"] = Zeros(Len(ks))]
       /\ IF Len(ks) < ScaledThreshold
          THEN num_blocks = 0 /\ num_buckets = 0
          ELSE \E g \in Geometries(Len(ks), variant) : num_blocks = g[1] /\ num_buckets = g[2]
  /\ counts = <<>>
  /\ bucket_offsets = <<>>
  /\ blocksDone = {}
  /\ bucketsDone = {}
  /\ swap_i = 0
  /\ thrown = FALSE
  /\ mv = NoRelocation
  /\ fn = NoCall

\* sample_sort: allocates R and enters sample_sort_
sample_sort ==
  /\ pc = "call" /\ variant = "copy"
  /\ heap' = Allocate(heap, "R", n)
  /\ pc' = IF n < ScaledThreshold THEN "base" ELSE "sample"
  /\ UNCHANGED <<fn, mv, variant, stable, typ, orig, num_blocks, num_buckets, counts,
                 bucket_offsets, blocksDone, bucketsDone, swap_i, thrown>>

\* sample_sort_, n < QUICKSORT_THRESHOLD
copy_base ==
  /\ pc = "base" /\ variant = "copy"
  /\ \E ord \in Orders :
       heap' = seq_sort_(heap, "uninitialized_copy_tag", "A", 1, "R", 1, n, stable, typ, ord)
  /\ pc' = "join"
  /\ UNCHANGED <<fn, mv, variant, stable, typ, orig, num_blocks, num_buckets, counts,
                 bucket_offsets, blocksDone, bucketsDone, swap_i, thrown>>

\* The draws hash64(i) % n of the sampling: the samples are sorted at once, so a
\* draw is taken as a non-decreasing choice of positions, one per group of
\* OVER_SAMPLE consecutive samples.
SampleDraws(groups, len) ==
  {d \in [1..groups -> 1..len] : \A i \in 1..(groups - 1) : d[i] <= d[i + 1]}

RECURSIVE from_function(_, _, _, _, _, _)
\* constructs slots i .. len of array a with copies of sa[f[i]]
from_function(h, a, i, len, sa, f) ==
  IF i > len THEN h
  ELSE from_function(assign_uninitialized(h, a, i, sa, f[i]), a, i + 1, len, sa, f)

\* lines 226-240: sample, sort the samples, pick the pivots, allocate Tmp and counts
copy_sample_heap(h, d, ord) ==
  LET f  == [i \in 1..sample_set_size |-> d[((i - 1) \div OVER_SAMPLE) + 1]]
      h1 == from_function(Allocate(h, "sample_set", sample_set_size), "sample_set",
                          1, sample_set_size, "A", f)
      h2 == [h1 EXCEPT !.mem["sample_set"] = quicksort(@, ord)]
      pf == [i \in 1..(num_buckets - 1) |-> OVER_SAMPLE * (i - 1) + 1]
      h3 == from_function(Allocate(h2, "pivots", num_buckets - 1), "pivots",
                          1, num_buckets - 1, "sample_set", pf)
  IN  Allocate(h3, "Tmp", n)

UnwrittenCounts == [i \in 1..(m + 1) |-> IF i = m + 1 THEN 0 ELSE -1]

copy_sample ==
  /\ pc = "sample" /\ variant = "copy"
  /\ \E d \in SampleDraws(num_buckets, n), ord \in Orders :
       heap' = copy_sample_heap(heap, d, ord)
  /\ counts' = UnwrittenCounts
  /\ pc' = "blocks"
  /\ UNCHANGED <<fn, mv, variant, stable, typ, orig, num_blocks, num_buckets,
                 bucket_offsets, blocksDone, bucketsDone, swap_i, thrown>>

\* sliced_for(len, block_size, f) calls f(i, start, end) for these i
SlicedBlocks(len) == 0..(((len + block_size - 1) \div block_size) - 1)
SliceStart(i) == i * block_size
SliceEnd(i, len) == Min((i + 1) * block_size, len)

\* the pivots as get_bucket_counts reads them
Pivots(h) ==
  IF variant = "copy" THEN h.mem["pivots"]
  ELSE [i \in 1..(num_buckets - 1) |-> h.mem["A"][stride * (i - 1) + 1]]

Row(cs, b) == SubSeq(cs, b * num_buckets + 1, (b + 1) * num_buckets)

\* lines 241-245, the task of block b
copy_block(b) ==
  /\ pc = "blocks" /\ variant = "copy"
  /\ b \in SlicedBlocks(n) \ blocksDone
  /\ LET start == SliceStart(b)
         end   == SliceEnd(b, n)
     IN  \E ord \in Orders :
           LET h1 == seq_sort_(heap, "uninitialized_copy_tag", "A", start + 1,
                               "Tmp", start + 1, end - start, stable, typ, ord)
           IN  /\ heap' = h1
               /\ counts' = Splice(counts, b * num_buckets + 1,
                                   get_bucket_counts(SubSeq(h1.mem["Tmp"], start + 1, end),
                                                     Pivots(h1), Row(counts, b)))
  /\ blocksDone' = blocksDone \cup {b}
  /\ pc' = IF blocksDone' = SlicedBlocks(n) THEN "transpose" ELSE "blocks"
  /\ UNCHANGED <<fn, mv, variant, stable, typ, orig, num_blocks, num_buckets,
                 bucket_offsets, bucketsDone, swap_i, thrown>>

\* ------------------------------------------------------- transpose_buckets
Count(cs, b, j) == cs[b * num_buckets + j + 1]

\* number of elements counted into bucket j by the blocks before block b
ColumnBefore(cs, b, j) == SumSeq([bb \in 1..b |-> Count(cs, bb - 1, j)])

\* number of elements of block b counted into the buckets before bucket j
RowBefore(cs, b, j) == SumSeq([jj \in 1..j |-> Count(cs, b, jj - 1)])

\* exclusive prefix sums of the column sums, num_buckets + 1 entries
BucketOffsets(cs) ==
  [j \in 1..(num_buckets + 1) |->
     SumSeq([jj \in 1..(j - 1) |-> ColumnBefore(cs, num_blocks, jj - 1)])]

\* every sub-run of a block read from the start of the block
block_start_only(cs, b, j) == b * block_size

SrcOf(cs, b, j) == b * block_size + RowBefore(cs, b, j)
DstOf(cs, b, j) == BucketOffsets(cs)[j + 1] + ColumnBefore(cs, b, j)

\* relocates the sub-runs of cells c .. m-1 (cell c is block c / k, bucket c % k)
RECURSIVE move_cells(_, _, _, _, _)
move_cells(h, cs, c, da, t) ==
  IF c >= m THEN h
  ELSE LET b == c \div num_buckets
           j == c % num_buckets
       IN  move_cells(uninitialized_relocate_n(h, da, DstOf(cs, b, j) + 1, "Tmp",
                                               SrcOf(cs, b, j) + 1, Count(cs, b, j), t),
                      cs, c + 1, da, t)

transpose_buckets(h, cs, da, t) == move_cells(h, cs, 0, da, t)

\* lines 172-175 and 247-250
transpose ==
  /\ pc = "transpose"
  /\ heap' = transpose_buckets(heap, counts, Out, typ)
  /\ bucket_offsets' = BucketOffsets(counts)
  /\ pc' = "buckets"
  /\ UNCHANGED <<fn, mv, variant, stable, typ, orig, num_blocks, num_buckets, counts,
                 blocksDone, bucketsDone, swap_i, thrown>>

\* a bucket whose two pivots are equivalent holds only equivalent elements
ends_only(i, k, pv) == i = 0 \/ i = k - 1

\* line 258: the test that bucket i (from 0) of k is sorted after the transposition;
\* pv[i] and pv[i + 1] are pivots[i - 1] and pivots[i] of the source
bucket_is_sorted_again(i, k, pv) ==
  i = 0 \/ i = k - 1 \/ less(pv[i], pv[i + 1])

\* lines 253-261, the task of bucket i
copy_bucket(i) ==
  /\ pc = "buckets" /\ variant = "copy"
  /\ i \in (0..(num_buckets - 1)) \ bucketsDone
  /\ LET start == bucket_offsets[i + 1]
         end   == bucket_offsets[i + 2]
     IN  IF bucket_is_sorted_again(i, num_buckets, heap.mem["pivots"])
         THEN \E ord \in Orders :
                heap' = seq_sort_inplace(heap, "R", start + 1, end - start, stable, typ, ord)
         ELSE heap' = heap
  /\ bucketsDone' = bucketsDone \cup {i}
  /\ pc' = IF bucketsDone' = 0..(num_buckets - 1) THEN "join" ELSE "buckets"
  /\ UNCHANGED <<fn, mv, variant, stable, typ, orig, num_blocks, num_buckets, counts,
                 bucket_offsets, blocksDone, swap_i, thrown>>

\* ----------------------------------------------------------- destructors
RECURSIVE DestroyFrom(_, _, _, _)
\* ~sequence<T>: destroys slots i .. of array a
DestroyFrom(h, a, i, t) ==
  IF i > Len(h.mem[a]) THEN h
  ELSE DestroyFrom(Destroy(h, a, i, t), a, i + 1, t)

\* The locals of the driver go out of scope: pivots and sample_set (sequences of
\* the copying driver) destroy their elements; Tmp (an uninitialized_sequence)
\* only frees its storage.
Free(h, a) == [h EXCEPT !.mem[a] = <<>>, !.cons[a] = <<>>, !.gone[a] = <<>>]

DestroyLocals(h, t) ==
  IF variant = "copy"
  THEN Free(Free(DestroyFrom(DestroyFrom(h, "pivots", 1, t), "sample_set", 1, t),
                 "pivots"), "sample_set")
  ELSE h

\* the driver returns to the caller
driver_return ==
  /\ pc = "join"
  /\ heap' = DestroyLocals(heap, typ)
  /\ pc' = "returned"
  /\ UNCHANGED <<fn, mv, variant, stable, typ, orig, num_blocks, num_buckets, counts,
                 bucket_offsets, blocksDone, bucketsDone, swap_i, thrown>>

\* the caller's sequence and the returned one go out of scope
caller_destroys ==
  /\ pc = "returned"
  /\ heap' = DestroyFrom(DestroyFrom(heap, "R", 1, typ), "A", 1, typ)
  /\ pc' = "dead"
  /\ UNCHANGED <<fn, mv, variant, stable, typ, orig, num_blocks, num_buckets, counts,
                 bucket_offsets, blocksDone, bucketsDone, swap_i, thrown>>

\* --------------------------------------------------- sample_sort_inplace_
\* sample_sort_inplace: enters sample_sort_inplace_ with In = Out = A
sample_sort_inplace ==
  /\ pc = "call" /\ variant = "inplace"
  /\ pc' = IF n < ScaledThreshold THEN "base" ELSE "swap"
  /\ UNCHANGED <<fn, mv, variant, stable, typ, orig, heap, num_blocks, num_buckets, counts,
                 bucket_offsets, blocksDone, bucketsDone, swap_i, thrown>>

\* n < QUICKSORT_THRESHOLD
inplace_base ==
  /\ pc = "base" /\ variant = "inplace"
  /\ \E ord \in Orders : heap' = seq_sort_inplace(heap, "A", 1, n, FALSE, typ, ord)
  /\ pc' = "join"
  /\ UNCHANGED <<fn, mv, variant, stable, typ, orig, num_blocks, num_buckets, counts,
                 bucket_offsets, blocksDone, bucketsDone, swap_i, thrown>>

\* std::swap(a[i], a[j])
swap(h, a, i, j) ==
  [h EXCEPT !.mem[a] = [@ EXCEPT ![i] = h.mem[a][j], ![j] = h.mem[a][i]],
            !.faults = @ \cup ReadFault(h, a, i) \cup ReadFault(h, a, j)]

\* the values of hash64(i) that matter: every residue of n - i occurs
Hashes == 0..MaxLen

\* a swap index taken from the whole sequence
index_from_zero(i, h) == h % (n - i)

\* line 130: size_t j = i + hash64(i) % (n - i)
swap_index(i, h) == i + (h % (n - i))

\* lines 129-132, one iteration
inplace_swap ==
  /\ pc = "swap" /\ variant = "inplace"
  /\ swap_i < sample_set_size
  /\ \E h \in Hashes : heap' = swap(heap, "A", swap_i + 1, swap_index(swap_i, h) + 1)
  /\ swap_i' = swap_i + 1
  /\ pc' = IF swap_i' = sample_set_size THEN "sortsample" ELSE "swap"
  /\ UNCHANGED <<fn, mv, variant, stable, typ, orig, num_blocks, num_buckets, counts,
                 bucket_offsets, blocksDone, bucketsDone, thrown>>

\* lines 135-157: sort the samples, allocate Tmp and counts
inplace_sort_samples ==
  /\ pc = "sortsample"
  /\ \E ord \in Orders :
       heap' = Allocate([heap EXCEPT !.mem["A"] =
                           Splice(@, 1, quicksort(SubSeq(@, 1, sample_set_size), ord))],
                        "Tmp", n)
  /\ counts' = UnwrittenCounts
  /\ pc' = "blocks"
  /\ UNCHANGED <<fn, mv, variant, stable, typ, orig, num_blocks, num_buckets,
                 bucket_offsets, blocksDone, bucketsDone, swap_i, thrown>>

PivotFault(h) ==
  IF \E i \in 1..Len(Pivots(h)) : Pivots(h)[i].st # "init" THEN {"read_uninit"} ELSE {}

\* What a read through the pivot references yields: the object when the slot is
\* live, its bytes when it was relocated out bitwise, and anything at all when the
\* object was destroyed.
Garbage == {[st |-> "uninit", key |-> g, id |-> 0] : g \in 0..(MaxLen + 1)}

PivotReads(h) ==
  {pv \in [1..(num_buckets - 1) -> Garbage \cup {Pivots(h)[i] : i \in 1..(num_buckets - 1)}] :
     \A i \in 1..(num_buckets - 1) :
       IF Pivots(h)[i] = Raw THEN pv[i] \in Garbage ELSE pv[i] = Pivots(h)[i]}

\* lines 159-164, the task of block b of In_sub
inplace_block(b) ==
  /\ pc = "blocks" /\ variant = "inplace"
  /\ b \in SlicedBlocks(n - sample_set_size) \ blocksDone
  /\ LET start == sample_set_size + SliceStart(b)
         end   == sample_set_size + SliceEnd(b, n - sample_set_size)
     IN  \E ord \in Orders :
           LET h1 == seq_sort_(heap, "uninitialized_relocate_tag", "A", start + 1,
                               "Tmp", start + 1, end - start, FALSE, typ, ord)
           IN  \E pv \in PivotReads(h1) :
                 /\ heap' = [h1 EXCEPT !.faults = @ \cup PivotFault(h1)]
                 /\ counts' = Splice(counts, (b + 1) * num_buckets + 1,
                                     get_bucket_counts(SubSeq(h1.mem["Tmp"], start + 1, end),
                                                       pv, Row(counts, b + 1)))
  /\ blocksDone' = blocksDone \cup {b}
  /\ pc' = IF blocksDone' = SlicedBlocks(n - sample_set_size) THEN "sampleblock" ELSE "blocks"
  /\ UNCHANGED <<fn, mv, variant, stable, typ, orig, num_blocks, num_buckets,
                 bucket_offsets, bucketsDone, swap_i, thrown>>

\* lines 169-170: the sample block is relocated to Tmp, then counted
inplace_sample_block ==
  /\ pc = "sampleblock"
  /\ LET h1 == uninitialized_relocate_n(heap, "Tmp", 1, "A", 1, sample_set_size, typ)
     IN  \E pv \in PivotReads(h1) :
           /\ heap' = [h1 EXCEPT !.faults = @ \cup PivotFault(h1)]
           /\ counts' = Splice(counts, 1,
                               get_bucket_counts(SubSeq(h1.mem["Tmp"], 1, sample_set_size),
                                                 pv, Row(counts, 0)))
  /\ pc' = "transpose"
  /\ UNCHANGED <<fn, mv, variant, stable, typ, orig, num_blocks, num_buckets,
                 bucket_offsets, blocksDone, bucketsDone, swap_i, thrown>>

\* lines 178-187, the task of bucket i
inplace_bucket(i) ==
  /\ pc = "buckets" /\ variant = "inplace"
  /\ i \in (0..(num_buckets - 1)) \ bucketsDone
  /\ LET start == bucket_offsets[i + 1]
         end   == bucket_offsets[i + 2]
     IN  \E ord \in Orders :
           heap' = seq_sort_inplace(heap, "A", start + 1, end - start, FALSE, typ, ord)
  /\ bucketsDone' = bucketsDone \cup {i}
  /\ pc' = IF bucketsDone' = 0..(num_buckets - 1) THEN "join" ELSE "buckets"
  /\ UNCHANGED <<fn, mv, variant, stable, typ, orig, num_blocks, num_buckets, counts,
                 bucket_offsets, blocksDone, swap_i, thrown>>

\* ------------------------------------------------- a comparator that throws
\* The heap when a comparison throws: the sort or merge that was comparing has
\* moved nothing it had not finished constructing; a block task has run its
\* assignment loop (line 80) before its first comparison.
AtThrow ==
  IF pc = "base"
  THEN IF variant = "copy"
       THEN {assign_loop(heap, "uninitialized_copy_tag", "A", 1, "R", 1, n, typ)}
       ELSE {heap}
  ELSE IF pc = "sample"
  THEN {from_function(Allocate(heap, "sample_set", sample_set_size), "sample_set", 1,
                      sample_set_size, "A", [i \in 1..sample_set_size |-> 1])}
  ELSE IF pc = "blocks"
  THEN {assign_loop(heap,
                    IF variant = "copy" THEN "uninitialized_copy_tag"
                    ELSE "uninitialized_relocate_tag",
                    "A", off + SliceStart(b) + 1, "Tmp", off + SliceStart(b) + 1,
                    SliceEnd(b, n - off) - SliceStart(b), typ) :
          off \in {IF variant = "copy" THEN 0 ELSE sample_set_size},
          b \in SlicedBlocks(n - (IF variant = "copy" THEN 0 ELSE sample_set_size))
                  \ blocksDone}
  ELSE IF pc = "sampleblock"
  THEN {uninitialized_relocate_n(heap, "Tmp", 1, "A", 1, sample_set_size, typ)}
  ELSE {heap}

\* Unwinding runs the destructors of the driver's locals and, in sample_sort, of R.
Unwind(h, t) ==
  LET h1 == DestroyLocals(h, t)
  IN  IF variant = "copy" THEN Free(DestroyFrom(h1, "R", 1, t), "R") ELSE h1

\* some comparison is still to be made in the current phase
Comparing ==
  \/ pc = "base" /\ n >= 2
  \/ pc \in {"sample", "blocks", "sampleblock"}
  \/ pc = "sortsample" /\ sample_set_size >= 2
  \/ /\ pc = "buckets"
     /\ \E i \in (0..(num_buckets - 1)) \ bucketsDone :
          \/ variant = "copy" /\ 0 < i /\ i < num_buckets - 1
          \/ bucket_offsets[i + 2] - bucket_offsets[i + 1] >= 2

comparator_throws ==
  /\ Comparing
  /\ \E h \in AtThrow : heap' = Unwind(h, typ)
  /\ thrown' = TRUE
  /\ pc' = "returned"
  /\ UNCHANGED <<fn, mv, variant, stable, typ, orig, num_blocks, num_buckets, counts,
                 bucket_offsets, blocksDone, bucketsDone, swap_i>>

\* ------------------------------------------------ an allocation that fails
\* The heap when an allocation throws std::bad_alloc: R (line 270); sample_set
\* (line 227) or, the samples and pivots built, counts (line 239) in the copying
\* driver; Tmp (line 151) in place, the samples swapped to the front and sorted.
AtAllocationFailure ==
  IF pc = "call"
  THEN {heap}
  ELSE IF pc = "sample"
  THEN {heap} \cup {copy_sample_heap(heap, d, ord) :
                      d \in SampleDraws(num_buckets, n), ord \in Orders}
  ELSE {[heap EXCEPT !.mem["A"] =
           Splice(@, 1, quicksort(SubSeq(@, 1, sample_set_size), ord))] : ord \in Orders}

allocation_fails ==
  /\ \/ pc = "call" /\ variant = "copy"
     \/ pc = "sample"
     \/ pc = "sortsample"
  /\ \E h \in AtAllocationFailure : heap' = Unwind(h, typ)
  /\ thrown' = TRUE
  /\ pc' = "alloc_failed"
  /\ UNCHANGED <<fn, mv, variant, stable, typ, orig, num_blocks, num_buckets, counts,
                 bucket_offsets, blocksDone, bucketsDone, swap_i>>

Next ==
  \/ sample_sort
  \/ copy_base
  \/ copy_sample
  \/ \E b \in 0..(num_blocks - 1) : copy_block(b)
  \/ transpose
  \/ \E i \in 0..(num_buckets - 1) : copy_bucket(i)
  \/ sample_sort_inplace
  \/ inplace_base
  \/ inplace_swap
  \/ inplace_sort_samples
  \/ \E b \in 0..(num_blocks - 1) : inplace_block(b)
  \/ inplace_sample_block
  \/ \E i \in 0..(num_buckets - 1) : inplace_bucket(i)
  \/ driver_return
  \/ caller_destroys
  \/ comparator_throws
  \/ allocation_fails

Spec == Init /\ [][Next]_vars

Sorted(s) == \A i \in 1..(Len(s) - 1) : ~less(s[i + 1], s[i])
IsPerm(s, t) ==
  /\ Len(s) = Len(t)
  /\ \A x \in {s[i] : i \in 1..Len(s)} \cup {t[i] : i \in 1..Len(t)} :
       Cardinality({i \in 1..Len(s) : s[i] = x}) = Cardinality({i \in 1..Len(t) : t[i] = x})

\* ============================================== the relocation primitives
\* destructive_move and destructive_move_array followed on their own, on the
\* element types of test/test_destructive_move.cpp.  An object is a record
\* [st, x, ptr]: x is its int member and ptr its pointer member (px, or the x of
\* MyTriviallyDestructiveMovable), a pair <<array, index>> naming what it points
\* at: a slot of from or to, or a cell of the free store.

sizeof_size_t == 8

\* sizeof(T): the test types as they are (one or two words) and with a payload
\* array beside their members
Sizes == {8, 4096, 8192, 16384}

Null == <<"null", 0>>
Obj(v, p) == [st |-> "init", x |-> v, ptr |-> p]
RawObj == [st |-> "uninit", x |-> 0, ptr |-> Null]

\* the int the i-th object is constructed with
ValueAt(i) == 41 + i

\* new (&a[i]) T(v): the converting constructors of the three types
new_T(T, v, a, i) ==
  IF T = "NotTriviallyDestructiveMovable" THEN Obj(v, <<a, i>>)
  ELSE IF T = "MyTriviallyDestructiveMovable" THEN Obj(0, <<"cell", i>>)
  ELSE Obj(v, Null)

\* std::memcpy(to + lo, from + lo, sizeof(T) * cnt): the bytes of cnt objects
memcpy(r, lo, cnt) ==
  [r EXCEPT
     !.to   = [j \in 1..Len(@) |->
                 IF j >= lo /\ j < lo + cnt THEN [r.from[j] EXCEPT !.st = "init"] ELSE @[j]],
     !.from = [j \in 1..Len(@) |->
                 IF j >= lo /\ j < lo + cnt THEN [@[j] EXCEPT !.st = "uninit"] ELSE @[j]],
     !.log  = [j \in 1..Len(@) |->
                 IF j >= lo /\ j < lo + cnt THEN Append(@[j], "memcpy") ELSE @[j]]]

\* ::new (&to[i]) T(std::move(from[i])): the move constructors of the three types
move_construct(r, i) ==
  LET src == r.from[i]
      r1  == [r EXCEPT !.log[i] = Append(@, "move_ctor")]
  IN  IF r.T = "NotTriviallyDestructiveMovable"
      THEN [r1 EXCEPT !.to[i] = Obj(src.x, <<"to", i>>)]
      ELSE IF r.T = "MyTriviallyDestructiveMovable"
      THEN [r1 EXCEPT !.to[i] = Obj(src.x, src.ptr), !.from[i].ptr = Null]
      ELSE [r1 EXCEPT !.to[i] = Obj(src.x, src.ptr)]

\* from[i].~T(): the destructors of the three types; -1 marks a deleted cell
destructor(r, i) ==
  LET r1 == [r EXCEPT !.log[i] = Append(@, "dtor"), !.from[i].st = "uninit"]
  IN  IF r.T = "MyTriviallyDestructiveMovable" /\ r.from[i].ptr # Null
      THEN [r1 EXCEPT !.cells[r.from[i].ptr[2]] = -1, !.from[i].ptr = Null]
      ELSE r1

\* every relocation is a bitwise copy
always_memcpy(r, i) == memcpy(r, i, 1)

\* destructive_move(to + i, from + i)
destructive_move_T(r, i) ==
  IF is_trivially_destructive_movable(r.T)
  THEN memcpy(r, i, 1)
  ELSE destructor(move_construct(r, i), i)

\* the calls followed: from holds sz objects, to is raw storage
RelocationCalls ==
  {[pc |-> "ready", op |-> op, T |-> T, size |-> size, sz |-> sz, chunk_size |-> 0,
    todo |-> {},
    from |-> [i \in 1..sz |-> new_T(T, ValueAt(i), "from", i)],
    to |-> [i \in 1..sz |-> RawObj],
    cells |-> [i \in 1..sz |->
                 IF T = "MyTriviallyDestructiveMovable" THEN ValueAt(i) ELSE 0],
    log |-> [i \in 1..sz |-> <<>>]] :
     op \in {"destructive_move", "destructive_move_array"},
     T \in MoveTypes, size \in Sizes, sz \in 0..MaxLen}

InitMove ==
  /\ mv \in {r \in RelocationCalls : r.op = "destructive_move" => r.sz = 1}
  /\ pc = "off"
  /\ variant = "copy"
  /\ stable = FALSE
  /\ typ = "int"
  /\ orig = <<>>
  /\ heap = EmptyHeap
  /\ num_blocks = 0
  /\ num_buckets = 0
  /\ counts = <<>>
  /\ bucket_offsets = <<>>
  /\ blocksDone = {}
  /\ bucketsDone = {}
  /\ swap_i = 0
  /\ thrown = FALSE
  /\ fn = NoCall

sortVars == <<pc, variant, stable, typ, orig, heap, num_blocks, num_buckets, counts,
              bucket_offsets, blocksDone, bucketsDone, swap_i, thrown, fn>>

\* parlay::destructive_move(to, from)
destructive_move_call ==
  /\ mv.pc = "ready" /\ mv.op = "destructive_move"
  /\ mv' = [destructive_move_T(mv, 1) EXCEPT !.pc = "done"]
  /\ UNCHANGED sortVars

\* lines 61-62 on the bitwise path.  chunk_size is 0 when sizeof(T) exceeds
\* 1024 * sizeof(size_t); the division by it is then undefined: the call traps,
\* or the quotient is 0 and no chunk is run.
destructive_move_array_call ==
  /\ mv.pc = "ready" /\ mv.op = "destructive_move_array"
  /\ IF is_trivially_destructive_movable(mv.T)
     THEN LET chunk_size == (1024 * sizeof_size_t) \div mv.size
          IN  IF chunk_size = 0
              THEN \E out \in {"crashed", "done"} :
                     mv' = [mv EXCEPT !.pc = out, !.chunk_size = 0]
              ELSE LET n_chunks == (mv.sz + chunk_size - 1) \div chunk_size
                   IN  mv' = [mv EXCEPT !.chunk_size = chunk_size,
                                        !.todo = 0..(n_chunks - 1),
                                        !.pc = IF n_chunks = 0 THEN "done" ELSE "run"]
     ELSE mv' = [mv EXCEPT !.todo = 0..(mv.sz - 1),
                           !.pc = IF mv.sz = 0 THEN "done" ELSE "run"]
  /\ UNCHANGED sortVars

\* lines 63-67, the task of chunk i
array_chunk(i) ==
  /\ mv.pc = "run" /\ is_trivially_destructive_movable(mv.T)
  /\ i \in mv.todo
  /\ LET n_objects == Min(mv.chunk_size, mv.sz - i * mv.chunk_size)
         r1 == memcpy(mv, i * mv.chunk_size + 1, n_objects)
     IN  mv' = [r1 EXCEPT !.todo = @ \ {i},
                          !.pc = IF mv.todo = {i} THEN "done" ELSE "run"]
  /\ UNCHANGED sortVars

\* lines 70-75, the task of element i
array_element(i) ==
  /\ mv.pc = "run" /\ ~is_trivially_destructive_movable(mv.T)
  /\ i \in mv.todo
  /\ mv' = [destructor(move_construct(mv, i + 1), i + 1) EXCEPT
              !.todo = @ \ {i},
              !.pc = IF mv.todo = {i} THEN "done" ELSE "run"]
  /\ UNCHANGED sortVars

NextMove ==
  \/ destructive_move_call
  \/ destructive_move_array_call
  \/ \E i \in 0..(MaxLen - 1) : array_chunk(i)
  \/ \E i \in 0..(MaxLen - 1) : array_element(i)

SpecMove == InitMove /\ [][NextMove]_vars

\* ================================================= the other functions
\* Calls followed on their own in fn; the sort and the relocation calls are idle.
notFn == <<pc, variant, stable, typ, orig, heap, num_blocks, num_buckets, counts,
           bucket_offsets, blocksDone, bucketsDone, swap_i, thrown, mv>>

OthersIdle ==
  /\ pc = "off"
  /\ variant = "copy"
  /\ stable = FALSE
  /\ typ = "int"
  /\ orig = <<>>
  /\ heap = EmptyHeap
  /\ num_blocks = 0
  /\ num_buckets = 0
  /\ counts = <<>>
  /\ bucket_offsets = <<>>
  /\ blocksDone = {}
  /\ bucketsDone = {}
  /\ swap_i = 0
  /\ thrown = FALSE
  /\ mv = NoRelocation

\* ------------------------------------------- the width of counts and offsets
\* A.size() is a 64-bit size_t, kept as two digits <<hi, lo>> of radix 2^16 with
\* hi up to 2^16 (so sizes up to 2^32 + 2^16 - 1 are told apart).
Radix == 2^16

SizeLess(a, b) == a[1] < b[1] \/ (a[1] = b[1] /\ a[2] < b[2])

\* (std::numeric_limits<unsigned int>::max)() = 2^32 - 1
unsigned_int_max == <<Radix - 1, Radix - 1>>

\* 2^32
TwoTo32 == <<Radix, 0>>

\* the sizes explored: around 0, the sort threshold, and 2^32
SizesOfA ==
  {<<hi, lo>> : hi \in {0, 1, Radix - 1, Radix},
                lo \in (0..MaxLen) \cup {16383, 16384, Radix - 2, Radix - 1}}

\* a test that also sends 2^32 - 1 to the narrow type
at_most_unsigned_max(nn) ==
  IF ~SizeLess(unsigned_int_max, nn) THEN "unsigned int" ELSE "unsigned long long"

\* lines 271-276: the s_size_t sample_sort instantiates sample_sort_ with
s_size_t_of_sample_sort(nn) ==
  IF SizeLess(nn, unsigned_int_max) THEN "unsigned int" ELSE "unsigned long long"

\* lines 283-288: the s_size_t sample_sort_inplace instantiates sample_sort_inplace_ with
s_size_t_of_sample_sort_inplace(nn) ==
  IF SizeLess(nn, unsigned_int_max) THEN "unsigned int" ELSE "unsigned long long"

InitWidth ==
  /\ fn \in {[f |-> e, pc |-> "ready", size |-> nn, s_size_t |-> "none"] :
               e \in {"sample_sort", "sample_sort_inplace"}, nn \in SizesOfA}
  /\ OthersIdle

\* the entry point picks the driver's instantiation
pick_s_size_t ==
  /\ fn.f \in {"sample_sort", "sample_sort_inplace"} /\ fn.pc = "ready"
  /\ fn' = [fn EXCEPT !.pc = "done",
                      !.s_size_t = IF fn.f = "sample_sort"
                                   THEN s_size_t_of_sample_sort(fn.size)
                                   ELSE s_size_t_of_sample_sort_inplace(fn.size)]
  /\ UNCHANGED notFn

NextWidth == pick_s_size_t

SpecWidth == InitWidth /\ [][NextWidth]_vars

\* ------------------------------------------------ the fork-join primitives
\* A call is a tree of work items: <<"run", x>> is the item x, <<"par", s, t>>
\* forks s and t and joins them, <<"seq", s, t>> runs s and then t, <<"skip">>
\* has nothing to run. An item is named by its path in the tree.
Item(x) == <<"run", x>>

\* par_do(left, right): runs both, possibly in parallel, and returns when both
\* have finished
par_do(left, right) == <<"par", left, right>>

\* parallel_for(lo, hi, body, granularity): body(i) for every lo <= i < hi; runs
\* of at most granularity consecutive indices go in index order, the runs are
\* forked
RECURSIVE parallel_for(_, _, _)
parallel_for(lo, hi, granularity) ==
  IF hi <= lo THEN <<"skip">>
  ELSE IF hi - lo = 1 THEN Item(lo)
  ELSE IF hi - lo <= granularity
  THEN <<"seq", Item(lo), parallel_for(lo + 1, hi, granularity)>>
  ELSE LET mid == lo + ((hi - lo) \div 2)
       IN  par_do(parallel_for(lo, mid, granularity), parallel_for(mid, hi, granularity))

par_do_if(do_parallel, left, right) ==
  IF do_parallel THEN par_do(left, right) ELSE <<"seq", left, right>>

\* a par_do3 that forks left and right only
left_and_right(left, mid, right) == par_do(left, right)

par_do3(left, mid, right) == par_do(par_do(left, mid), right)

par_do3_if(do_parallel, left, mid, right) ==
  IF do_parallel THEN par_do3(left, mid, right)
  ELSE <<"seq", left, <<"seq", mid, right>>>>

\* the paths of the items of a tree
RECURSIVE ItemPaths(_, _)
ItemPaths(t, at) ==
  IF t[1] = "skip" THEN {}
  ELSE IF t[1] = "run" THEN {at}
  ELSE ItemPaths(t[2], Append(at, 1)) \cup ItemPaths(t[3], Append(at, 2))

\* the items that may run next when those of done have finished
RECURSIVE MayRun(_, _, _)
MayRun(t, at, done) ==
  IF t[1] = "skip" THEN {}
  ELSE IF t[1] = "run" THEN {at} \ done
  ELSE IF t[1] = "par"
  THEN MayRun(t[2], Append(at, 1), done) \cup MayRun(t[3], Append(at, 2), done)
  ELSE IF ItemPaths(t[2], Append(at, 1)) \subseteq done
       THEN MayRun(t[3], Append(at, 2), done)
       ELSE MayRun(t[2], Append(at, 1), done)

RECURSIVE ItemAt(_, _)
ItemAt(t, path) == IF path = <<>> THEN t[2] ELSE ItemAt(t[1 + Head(path)], Tail(path))

Granularities == {0, 1, 2}

ForkJoinCalls ==
  {[f |-> "par_do", do_parallel |-> TRUE, start |-> 0, end |-> 0, granularity |-> 0]}
  \cup {[f |-> e, do_parallel |-> d, start |-> 0, end |-> 0, granularity |-> 0] :
          e \in {"par_do_if", "par_do3_if"}, d \in BOOLEAN}
  \cup {[f |-> "par_do3", do_parallel |-> TRUE, start |-> 0, end |-> 0, granularity |-> 0]}
  \cup {[f |-> "parallel_for", do_parallel |-> TRUE, start |-> lo, end |-> hi, granularity |-> g] :
          lo \in 0..1, hi \in 0..MaxLen, g \in Granularities}

\* the work of a call
TaskOf(c) ==
  IF c.f = "par_do" THEN par_do(Item("left"), Item("right"))
  ELSE IF c.f = "par_do_if" THEN par_do_if(c.do_parallel, Item("left"), Item("right"))
  ELSE IF c.f = "par_do3" THEN par_do3(Item("left"), Item("mid"), Item("right"))
  ELSE IF c.f = "par_do3_if"
  THEN par_do3_if(c.do_parallel, Item("left"), Item("mid"), Item("right"))
  ELSE parallel_for(c.start, c.end, c.granularity)

InitPar ==
  /\ fn \in {[f |-> c.f, do_parallel |-> c.do_parallel, start |-> c.start, end |-> c.end,
               granularity |-> c.granularity, pc |-> "running", done |-> {}, log |-> <<>>] :
              c \in ForkJoinCalls}
  /\ OthersIdle

\* a work item runs to completion
run_item ==
  /\ fn.pc = "running"
  /\ \E path \in MayRun(TaskOf(fn), <<>>, fn.done) :
       fn' = [fn EXCEPT !.done = @ \cup {path},
                        !.log = Append(@, ItemAt(TaskOf(fn), path))]
  /\ UNCHANGED notFn

\* the join: the call returns when nothing is left to run
join ==
  /\ fn.pc = "running"
  /\ MayRun(TaskOf(fn), <<>>, fn.done) = {}
  /\ fn' = [fn EXCEPT !.pc = "returned"]
  /\ UNCHANGED notFn

NextPar == run_item \/ join

SpecPar == InitPar /\ [][NextPar]_vars

\* ------------------------------------------------- UninitializedTracker
\* Slots of storage that hold an UninitializedTracker: x and initialized are the
\* members as they are in memory, live tells whether an object's lifetime is
\* running in the slot.
TrackerSlots == {1, 2}
TrackerValues == {0, 1}

\* storage handed out by a container: flagged as uninitialized
RawTracker == [x |-> 0, initialized |-> FALSE, live |-> FALSE]

NoOperation == [op |-> "none", to |-> 1, from |-> 1, to_was |-> FALSE, from_was |-> FALSE]

\* an assert of the class fails: the program is terminated
AssertFails(t) == [failed |-> TRUE, obj |-> t]
Done(t) == [failed |-> FALSE, obj |-> t]

\* lines 36 and 39: UninitializedTracker(), UninitializedTracker(int _x)
UninitializedTracker(t, _x) == Done([x |-> _x, initialized |-> TRUE, live |-> TRUE])

\* lines 41-45; no move constructor is declared, so a move takes this one too
copy_constructor(t, other) ==
  IF ~other.initialized THEN AssertFails(t)
  ELSE Done([x |-> other.x, initialized |-> TRUE, live |-> TRUE])

\* lines 47-52; no move assignment is declared, so a move takes this one too
operator_assign(t, other) ==
  IF ~t.initialized THEN AssertFails(t)
  ELSE IF ~other.initialized THEN AssertFails(t)
  ELSE Done([t EXCEPT !.x = other.x])

\* Lines 54-57. The store of line 56 is the last write to an object whose
\* lifetime ends, and initialized is not volatile: a build may keep the store or
\* drop it, so the flag read from the slot afterwards is either value.
destructor_of_tracker(t) ==
  IF ~t.initialized THEN {AssertFails(t)}
  ELSE {Done([t EXCEPT !.initialized = kept, !.live = FALSE]) : kept \in BOOLEAN}

InitTracker ==
  /\ fn = [f |-> "UninitializedTracker", pc |-> "running",
           slots |-> [i \in TrackerSlots |-> RawTracker], last |-> NoOperation]
  /\ OthersIdle

Operation(name, i, j) ==
  [op |-> name, to |-> i, from |-> j, to_was |-> fn.slots[i].live, from_was |-> fn.slots[j].live]

Outcome(name, i, j, r) ==
  IF r.failed
  THEN fn' = [fn EXCEPT !.pc = "aborted", !.last = Operation(name, i, j)]
  ELSE fn' = [fn EXCEPT !.slots[i] = r.obj, !.last = Operation(name, i, j)]

construct ==
  /\ fn.pc = "running"
  /\ \E i \in TrackerSlots : \E v \in TrackerValues :
       Outcome("construct", i, i, UninitializedTracker(fn.slots[i], v))
  /\ UNCHANGED notFn

copy_construct ==
  /\ fn.pc = "running"
  /\ \E i \in TrackerSlots : \E j \in TrackerSlots \ {i} : \E name \in {"copy", "move"} :
       Outcome(name, i, j, copy_constructor(fn.slots[i], fn.slots[j]))
  /\ UNCHANGED notFn

copy_assign ==
  /\ fn.pc = "running"
  /\ \E i \in TrackerSlots : \E j \in TrackerSlots : \E name \in {"copy_assign", "move_assign"} :
       Outcome(name, i, j, operator_assign(fn.slots[i], fn.slots[j]))
  /\ UNCHANGED notFn

destroy ==
  /\ fn.pc = "running"
  /\ \E i \in TrackerSlots : \E r \in destructor_of_tracker(fn.slots[i]) :
       Outcome("destroy", i, i, r)
  /\ UNCHANGED notFn

NextTracker == construct \/ copy_construct \/ copy_assign \/ destroy

SpecTracker == InitTracker /\ [][NextTracker]_vars

\* ------------------------------------------------------- parallel_io.h
\* char_seq_from_file and partition_at. A file is its length; the byte at offset
\* i of the file, and the character at index i of a range, is ByteAt(i).
ByteAt(i) == 97 + i
FileLengths == 0..MaxLen
Offsets == 0..(MaxLen + 1)

\* end - start in size_t: below is the amount by which the difference went
\* below zero and wrapped around
size_t_minus(end, start) ==
  IF end >= start THEN [value |-> end - start, below |-> 0]
  ELSE [value |-> 0, below |-> start - end]

\* file.read(bytes.data(), n) after file.seekg(start)
read(start, len) == [i \in 1..len |-> ByteAt(start + i - 1)]

\* Lines 112-123, the file being open. The outcomes of a call: with the
\* difference of line 116 wrapped around, n + 1 is beyond any allocation
\* (bad_alloc) or, for n + 1 = 0, line 122 writes outside the empty sequence.
char_seq_from_file(length, start, end) ==
  LET start1 == Min(start, length)
      end1 == IF end = 0 THEN length ELSE Min(end, length)
      len == size_t_minus(end1, start1)
  IN  IF len.below = 0
      THEN {[outcome |-> "returned", bytes |-> Append(read(start1, len.value), 0)]}
      ELSE IF len.below = 1
      THEN {[outcome |-> "out_of_bounds_write", bytes |-> <<>>]}
      ELSE {[outcome |-> "bad_alloc", bytes |-> <<>>]}

\* pack_index<long>(Flags): the indices (from 0) of the set flags, ascending
RECURSIVE pack_index(_)
pack_index(Flags) ==
  IF Flags = <<>> THEN <<>>
  ELSE LET front == pack_index(SubSeq(Flags, 1, Len(Flags) - 1))
       IN  IF Flags[Len(Flags)] THEN Append(front, Len(Flags) - 1) ELSE front

\* tabulate(len, f): the sequence f(0), ..., f(len - 1)
tabulate(len, f) == [i \in 1..len |-> f[i - 1]]

\* S.cut(start, end): the elements of S at indices start .. end - 1
cut(S, start, end) == SubSeq(S, start + 1, end)

\* lines 235-246, with f the to_sequence of line 252
partition_at(R, StartFlags) ==
  LET S == R
      Flags == StartFlags
      len == Len(S)
      Locations == pack_index(Flags)
      part == [i \in 0..(Len(Locations) - 1) |->
                 LET start == IF i = 0 THEN 0 ELSE Locations[i] + 1
                     end == IF i = len THEN len ELSE Locations[i + 1]
                 IN  cut(S, start, end)]
  IN  tabulate(Len(Locations), part)

CharRanges == {[i \in 1..len |-> ByteAt(i - 1)] : len \in 0..MaxLen}

InitIO ==
  /\ \/ fn \in {[f |-> "char_seq_from_file", pc |-> "ready", opens |-> o, length |-> l,
                 start |-> s, end |-> e, outcome |-> "none", result |-> <<>>] :
                  o \in BOOLEAN, l \in FileLengths, s \in Offsets, e \in Offsets}
     \/ \E R \in CharRanges :
          fn \in {[f |-> "partition_at", pc |-> "ready", R |-> R, StartFlags |-> fl,
                   outcome |-> "none", result |-> <<>>] : fl \in [1..Len(R) -> BOOLEAN]}
  /\ OthersIdle

\* lines 107-123
char_seq_from_file_call ==
  /\ fn.f = "char_seq_from_file" /\ fn.pc = "ready"
  /\ IF ~fn.opens
     THEN fn' = [fn EXCEPT !.pc = "done", !.outcome = "exit"]
     ELSE \E r \in char_seq_from_file(fn.length, fn.start, fn.end) :
            fn' = [fn EXCEPT !.pc = "done", !.outcome = r.outcome, !.result = r.bytes]
  /\ UNCHANGED notFn

\* lines 249-252
partition_at_call ==
  /\ fn.f = "partition_at" /\ fn.pc = "ready"
  /\ fn' = [fn EXCEPT !.pc = "done", !.outcome = "returned",
                      !.result = partition_at(fn.R, fn.StartFlags)]
  /\ UNCHANGED notFn

NextIO == char_seq_from_file_call \/ partition_at_call

SpecIO == InitIO /\ [][NextIO]_vars

\* ------------------------------------------- get_bucket_counts on its own
\* The positions of itC (from 1) at which the walk evaluates one of its three
\* asserts itC != sC.end(): before every increment of a count and before the
\* store of line 62.
RECURSIVE itC_at_asserts(_, _, _, _, _)
itC_at_asserts(sA, sB, ia, ib, at) ==
  IF at = "below"
  THEN IF less(sA[ia], sB[ib])
       THEN {ib} \cup (IF ia + 1 > Len(sA) THEN {}
                       ELSE itC_at_asserts(sA, sB, ia + 1, ib, "below"))
       ELSE IF ib + 1 > Len(sB)
            THEN {ib + 1}
            ELSE IF ~less(sB[ib], sB[ib + 1])
                 THEN itC_at_asserts(sA, sB, ia, ib + 1, "equal")
                 ELSE itC_at_asserts(sA, sB, ia, ib + 1, "below")
  ELSE IF with_equal_pivot(sB[ib], sA[ia])
       THEN {ib} \cup (IF ia + 1 > Len(sA) THEN {}
                       ELSE itC_at_asserts(sA, sB, ia + 1, ib, "equal"))
       ELSE IF ib + 1 > Len(sB)
            THEN {ib + 1}
            ELSE itC_at_asserts(sA, sB, ia, ib + 1, "below")

\* the sorted sequences over the keys, of every length up to MaxLen
SortedRuns ==
  UNION {{ks \in [1..len -> Keys] : \A i \in 1..(len - 1) : ks[i] <= ks[i + 1]} :
         len \in 0..MaxLen}

\* a count slice as it is allocated: no entry written
Unwritten(len) == [i \in 1..len |-> -1]

InitCounts ==
  /\ fn \in {[f |-> "get_bucket_counts", pc |-> "ready", sA |-> AsSlots(a), sB |-> AsSlots(p),
              sC |-> Unwritten(Len(p) + 1), asserts |-> {}] :
               a \in SortedRuns, p \in SortedRuns}
  /\ OthersIdle

\* lines 31-63
get_bucket_counts_call ==
  /\ fn.f = "get_bucket_counts" /\ fn.pc = "ready"
  /\ fn' = [fn EXCEPT !.pc = "done",
                      !.sC = get_bucket_counts(fn.sA, fn.sB, fn.sC),
                      !.asserts = IF Len(fn.sA) = 0 \/ Len(fn.sB) = 0 THEN {}
                                  ELSE itC_at_asserts(fn.sA, fn.sB, 1, 1, "below")]
  /\ UNCHANGED notFn

NextCounts == get_bucket_counts_call

SpecCounts == InitCounts /\ [][NextCounts]_vars

\* ------------------------------- the copying driver with three pivots
\* The full path of sample_sort on the longest inputs with four buckets, so that
\* runs of two and of three equal adjacent pivots occur; no exception is thrown.
ManyBuckets == {4}

InitManyPivots ==
  /\ pc = "call"
  /\ variant = "copy"
  /\ stable \in BOOLEAN
  /\ typ = "int"
  /\ \E ks \in {i \in Inputs : Len(i) = MaxLen} :
       /\ orig = AsSlots(ks)
       /\ heap = [EmptyHeap EXCEPT !.mem["A"] = AsSlots(ks),
                                   !.cons["A"] = [i \in 1..Len(ks) |-> 1],
                                   !.gone["A"] = Zeros(Len(ks))]
  /\ num_blocks \in BlockCounts
  /\ num_buckets \in ManyBuckets
  /\ counts = <<>>
  /\ bucket_offsets = <<>>
  /\ blocksDone = {}
  /\ bucketsDone = {}
  /\ swap_i = 0
  /\ thrown = FALSE
  /\ mv = NoRelocation
  /\ fn = NoCall

NextManyPivots ==
  \/ sample_sort
  \/ copy_sample
  \/ \E b \in 0..(num_blocks - 1) : copy_block(b)
  \/ transpose
  \/ \E i \in 0..(num_buckets - 1) : copy_bucket(i)
  \/ driver_return

SpecManyPivots == InitManyPivots /\ [][NextManyPivots]_vars

\* ------------------------------------------- what the tasks of a phase touch
\* An access is a slot of an array (or an entry of counts) with w telling whether
\* the task writes it; relocating an element out of a slot writes the slot.
Touch(a, idxs, w) == {[arr |-> a, idx |-> i, w |-> w] : i \in idxs}

\* a block task whose count row reaches one entry into the next row
row_and_one_more(b) == (b * num_buckets + 1)..((b + 1) * num_buckets + 1)

\* the row of counts handed to the task of block b (lines 163 and 244)
count_row(b) == (b * num_buckets + 1)..((b + 1) * num_buckets)

\* lines 241-245 and 159-164: the task of block b of the sliced_for
block_task(b) ==
  IF variant = "copy"
  THEN Touch("A", (SliceStart(b) + 1)..SliceEnd(b, n), FALSE)
       \cup Touch("Tmp", (SliceStart(b) + 1)..SliceEnd(b, n), TRUE)
       \cup Touch("pivots", 1..(num_buckets - 1), FALSE)
       \cup Touch("counts", count_row(b), TRUE)
  ELSE LET start == sample_set_size + SliceStart(b)
           end == sample_set_size + SliceEnd(b, n - sample_set_size)
       IN  Touch("A", (start + 1)..end, TRUE)
           \cup Touch("Tmp", (start + 1)..end, TRUE)
           \cup Touch("A", {stride * (i - 1) + 1 : i \in 1..(num_buckets - 1)}, FALSE)
           \cup Touch("counts", count_row(b + 1), TRUE)

\* the move of sub-run (b, j) by transpose_buckets
transpose_task(b, j) ==
  Touch("Tmp", (SrcOf(counts, b, j) + 1)..(SrcOf(counts, b, j) + Count(counts, b, j)), TRUE)
  \cup Touch(Out, (DstOf(counts, b, j) + 1)..(DstOf(counts, b, j) + Count(counts, b, j)), TRUE)
  \cup Touch("counts", 1..(m + 1), FALSE)

\* lines 253-261 and 178-187: the task of bucket i of the parallel_for
bucket_task(i) ==
  Touch(Out, (bucket_offsets[i + 1] + 1)..bucket_offsets[i + 2], TRUE)
  \cup Touch("bucket_offsets", {i + 1, i + 2}, FALSE)
  \cup (IF variant = "copy" /\ i # 0 /\ i # num_buckets - 1
        THEN Touch("pivots", {i, i + 1}, FALSE) ELSE {})

\* the tasks that run in parallel in the phase the call is in
PhaseTasks ==
  IF pc = "blocks"
  THEN {block_task(b) : b \in SlicedBlocks(IF variant = "copy" THEN n ELSE n - sample_set_size)}
  ELSE IF pc = "transpose"
  THEN {transpose_task(c \div num_buckets, c % num_buckets) : c \in 0..(m - 1)}
  ELSE IF pc = "buckets"
  THEN {bucket_task(i) : i \in 0..(num_buckets - 1)}
  ELSE {}

\* ------------------------------------------- the parameters of the full path
\* Lines 99-122 and 209-224 followed on their own for sequences of
\* QUICKSORT_THRESHOLD elements and more, for each class of element type.
QUICKSORT_THRESHOLD == 16384

\* is_pointer<value_type>, sizeof(value_type) > 8, neither
ElementClasses == {"pointer", "large", "other"}

\* the roots around which the lengths explored lie
Roots == {128, 129, 181, 255, 256, 257, 383, 384, 385, 511, 512, 1000, 1023, 1024, 1025,
          4095, 4096, 10000, 32767, 32768}

Lengths ==
  (QUICKSORT_THRESHOLD..(QUICKSORT_THRESHOLD + 8 * MaxLen))
  \cup {r * r + d : r \in Roots, d \in {-1, 0, 1}}

\* static_cast<size_t>(std::sqrt(n)): the largest r with r * r <= len, between lo and hi
RECURSIVE sqrt_between(_, _, _)
sqrt_between(len, lo, hi) ==
  IF lo = hi THEN lo
  ELSE LET mid == (lo + hi + 1) \div 2
       IN  IF mid * mid <= len THEN sqrt_between(len, mid, hi)
           ELSE sqrt_between(len, lo, mid - 1)

sqrt_of(len) == sqrt_between(len, 0, 46340)

\* the loop of log2_up: b = b >> 1, a++ while b > 0
RECURSIVE log2_up_loop(_, _)
log2_up_loop(b, a) == IF b > 0 THEN log2_up_loop(b \div 2, a + 1) ELSE a

\* utilities.h, log2_up(i), i > 0
log2_up(i) == log2_up_loop(i - 1, 0)

bucket_quotient(class) == IF class = "pointer" THEN 2 ELSE IF class = "large" THEN 3 ELSE 4
block_quotient(class) == IF class = "pointer" THEN 3 ELSE IF class = "large" THEN 3 ELSE 4

\* a block count without the rounding up to a power of two
blocks_unrounded(len, class) == (sqrt_of(len) \div block_quotient(class)) + 1

\* size_t num_blocks = 1 << log2_up((sqrt / block_quotient) + 1)
num_blocks_of(len, class) == 2 ^ log2_up((sqrt_of(len) \div block_quotient(class)) + 1)

\* a block size rounded down
block_size_floor(len, blocks) == len \div blocks

\* size_t block_size = ((n - 1) / num_blocks) + 1
block_size_of(len, blocks) == ((len - 1) \div blocks) + 1

\* size_t num_buckets = (sqrt / bucket_quotient) + 1
num_buckets_of(len, class) == (sqrt_of(len) \div bucket_quotient(class)) + 1

\* a sample of OVER_SAMPLE elements
over_sample_only(inplace, size, buckets) == OVER_SAMPLE

\* lines 114 and 223: block_size in place, num_buckets * OVER_SAMPLE when copying
sample_set_size_of(inplace, size, buckets) == IF inplace THEN size ELSE buckets * OVER_SAMPLE

\* the asserts of lines 120, 122 and 140 that fail for these parameters
failed_asserts(sample_size, buckets) ==
  (IF sample_size >= buckets - 1 THEN {} ELSE {"sample_set_size >= num_buckets - 1"})
  \cup (IF buckets - 1 = 0 THEN {"division by zero"}
        ELSE LET str == sample_size \div (buckets - 1)
             IN  (IF str >= 1 THEN {} ELSE {"stride >= 1"})
                 \cup (IF \A i \in 0..(buckets - 2) : str * i < sample_size THEN {}
                       ELSE {"stride * i < sample_set_size"}))

\* sliced_for(len, size, f): f is called on count blocks, block i (from 0) being
\* [i * size, min((i + 1) * size, len)): all of length size but the last
sliced_for(len, size) ==
  LET count == (len + size - 1) \div size
  IN  [count |-> count, last |-> IF count = 0 THEN 0 ELSE len - (count - 1) * size]

InitGeometry ==
  /\ fn \in {[f |-> e, pc |-> "ready", class |-> c, n |-> len, sqrt |-> 0, num_blocks |-> 0,
              block_size |-> 0, num_buckets |-> 0, sample_set_size |-> 0, m |-> 0,
              stride |-> 0, asserts |-> {}, blocks |-> [count |-> 0, last |-> 0]] :
               e \in {"sample_sort_", "sample_sort_inplace_"}, c \in ElementClasses,
               len \in Lengths}
  /\ OthersIdle

\* lines 99-122 and 209-224, and the blocks of lines 159 and 241
derive_parameters ==
  /\ fn.f \in {"sample_sort_", "sample_sort_inplace_"} /\ fn.pc = "ready"
  /\ LET blocks == num_blocks_of(fn.n, fn.class)
         size == block_size_of(fn.n, blocks)
         buckets == num_buckets_of(fn.n, fn.class)
         inplace == fn.f = "sample_sort_inplace_"
         samples == sample_set_size_of(inplace, size, buckets)
     IN  fn' = [fn EXCEPT !.pc = "derived",
                          !.sqrt = sqrt_of(fn.n),
                          !.num_blocks = blocks,
                          !.block_size = size,
                          !.num_buckets = buckets,
                          !.sample_set_size = samples,
                          !.m = blocks * buckets,
                          !.stride = IF inplace /\ buckets > 1 THEN samples \div (buckets - 1) ELSE 0,
                          !.asserts = IF inplace THEN failed_asserts(samples, buckets) ELSE {},
                          !.blocks = IF inplace THEN sliced_for(fn.n - samples, size)
                                     ELSE sliced_for(fn.n, size)]
  /\ UNCHANGED notFn

NextGeometry == derive_parameters

SpecGeometry == InitGeometry /\ [][NextGeometry]_vars

\* ---------------------------------------------------------------- write_add, write_min
\* utilities.h 148-165, called from the parallel loops of bench_standard.cpp
\* (lines 172 and 198), where several iterations hit the same std::atomic<T>.

\* the width of T, in bits
T_bits == 2

TValues == 0..((2 ^ T_bits) - 1)

\* the iterations of the parallel loop that address the same atomic
Callers == 1..3

\* the argument b of write_add: 1 as in the benchmark, and the value that
\* is -1 in T
Addends == {1, (2 ^ T_bits) - 1}

\* newV = oldV + b in T
plus(x, y) == (x + y) % (2 ^ T_bits)

not_greater(x, y) == x <= y

\* std::less<T>()
std_less(x, y) == x < y

exchange_always(a, expected, desired, spurious) ==
  [ok |-> TRUE, a |-> desired, expected |-> expected]

\* std::atomic_compare_exchange_weak(a, &expected, desired): stores desired
\* when *a equals expected, otherwise loads *a into expected; the weak form
\* may also fail when the two are equal
compare_exchange_weak(a, expected, desired, spurious) ==
  IF a = expected /\ ~spurious
  THEN [ok |-> TRUE, a |-> desired, expected |-> expected]
  ELSE [ok |-> FALSE, a |-> a, expected |-> a]

NewCall(b) == [pc |-> "load", b |-> b, oldV |-> 0, newV |-> 0, c |-> 0, r |-> FALSE]

InitAtomic ==
  /\ \E f \in {"write_add", "write_min"}, v \in TValues :
       \E bs \in [Callers -> IF f = "write_add" THEN Addends ELSE TValues] :
         fn = [f |-> f, a |-> v, initial |-> v,
               calls |-> [t \in Callers |-> NewCall(bs[t])],
               writes |-> <<>>]
  /\ OthersIdle

\* lines 152-153: oldV = a->load(); newV = oldV + b;
write_add_load(t) ==
  /\ fn.f = "write_add" /\ fn.calls[t].pc = "load"
  /\ fn' = [fn EXCEPT !.calls[t].oldV = fn.a,
                      !.calls[t].newV = plus(fn.a, fn.calls[t].b),
                      !.calls[t].pc = "cas"]
  /\ UNCHANGED notFn

\* line 154: while (!std::atomic_compare_exchange_weak(a, &oldV, newV))
write_add_cas(t) ==
  /\ fn.f = "write_add" /\ fn.calls[t].pc = "cas"
  /\ \E spurious \in BOOLEAN :
       LET x == compare_exchange_weak(fn.a, fn.calls[t].oldV, fn.calls[t].newV, spurious)
       IN fn' = [fn EXCEPT !.a = x.a,
                           !.calls[t].oldV = x.expected,
                           !.calls[t].pc = IF x.ok THEN "done" ELSE "load",
                           !.writes = IF x.ok
                                      THEN Append(@, [by |-> t, from |-> fn.a, to |-> x.a])
                                      ELSE @]
  /\ UNCHANGED notFn

\* lines 162-163: c = a->load(); then less(b, c) decides between the
\* compare-exchange and return r
write_min_load(t) ==
  /\ fn.f = "write_min" /\ fn.calls[t].pc = "load"
  /\ fn' = [fn EXCEPT !.calls[t].c = fn.a,
                      !.calls[t].pc = IF std_less(fn.calls[t].b, fn.a) THEN "cas" ELSE "done"]
  /\ UNCHANGED notFn

\* line 163: !(r = std::atomic_compare_exchange_weak(a, &c, b)); line 164
write_min_cas(t) ==
  /\ fn.f = "write_min" /\ fn.calls[t].pc = "cas"
  /\ \E spurious \in BOOLEAN :
       LET x == compare_exchange_weak(fn.a, fn.calls[t].c, fn.calls[t].b, spurious)
       IN fn' = [fn EXCEPT !.a = x.a,
                           !.calls[t].c = x.expected,
                           !.calls[t].r = x.ok,
                           !.calls[t].pc = IF x.ok THEN "done" ELSE "load",
                           !.writes = IF x.ok
                                      THEN Append(@, [by |-> t, from |-> fn.a, to |-> x.a])
                                      ELSE @]
  /\ UNCHANGED notFn

NextAtomic ==
  \/ \E t \in Callers : write_add_load(t)
  \/ \E t \in Callers : write_add_cas(t)
  \/ \E t \in Callers : write_min_load(t)
  \/ \E t \in Callers : write_min_cas(t)

SpecAtomic == InitAtomic /\ [][NextAtomic]_vars

\* ================================================================ claims
Returned == pc = "returned" /\ ~thrown
FullPath == num_blocks > 0
Equivalent(a, b) == ~less(a, b) /\ ~less(b, a)
Slots(a) == 1..Len(heap.mem[a])

\* C1: sample_sort(A, less, stable) returns a sequence of the length of A that
\* is a permutation of A and is non-decreasing under less, on the base path and
\* on the full path.
C1_sort_returns_sorted_permutation ==
  (variant = "copy" /\ Returned) =>
    /\ Len(heap.mem["R"]) = n
    /\ IsPerm(heap.mem["R"], orig)
    /\ Sorted(heap.mem["R"])

\* the full path has returned for an input that was out of order
C1_full_path_returned ==
  variant = "copy" /\ Returned /\ FullPath /\ num_buckets = 3 /\ ~Sorted(orig)

\* C2: sample_sort_inplace(A, less) leaves A a permutation of its original
\* contents that is non-decreasing under less, for every element type.
C2_inplace_leaves_sorted_permutation ==
  (variant = "inplace" /\ Returned) =>
    /\ IsPerm(heap.mem["A"], orig)
    /\ Sorted(heap.mem["A"])

\* C3: with stable = true the copying sort keeps equivalent elements in the
\* order of their positions in the input, on the base path and on the full
\* path, buckets whose final sort is skipped included.
C3_stable_keeps_input_order ==
  (variant = "copy" /\ stable /\ pc \in {"join", "returned"} /\ ~thrown) =>
    \A p \in Slots("R") : \A q \in Slots("R") :
      (p < q /\ Equivalent(heap.mem["R"][p], heap.mem["R"][q]))
        => heap.mem["R"][p].id < heap.mem["R"][q].id

\* a stable full-path sort has finished and skipped the sort of a middle
\* bucket that holds two or more elements
C3_skipped_bucket_joined ==
  /\ variant = "copy" /\ stable /\ pc = "join" /\ ~thrown /\ FullPath
  /\ num_buckets = 3
  /\ ~bucket_is_sorted_again(1, num_buckets, heap.mem["pivots"])
  /\ bucket_offsets[3] - bucket_offsets[2] >= 2

\* C4: the copying sort never modifies its input: at every step up to and after
\* its return every slot of A holds the value it held at the call, and none has
\* been constructed in, moved from or destroyed.
C4_copying_sort_leaves_input ==
  (variant = "copy" /\ pc \notin {"off", "dead"}) =>
    /\ heap.mem["A"] = orig
    /\ \A i \in Slots("A") : heap.cons["A"][i] = 1 /\ heap.gone["A"][i] = 0

\* the copying sort has returned from the full path and from an unsorted input
C4_copy_returned ==
  variant = "copy" /\ Returned /\ FullPath /\ n = MaxLen /\ ~Sorted(orig)

\* C5: at every step of sort and sort_inplace, for every element type, no slot
\* of A, Tmp, R, sample_set or pivots is read, compared, moved from or destroyed
\* while it is uninitialized, and none is destroyed twice.
C5_no_use_of_uninitialized_slot ==
  (pc # "off" /\ ~thrown) => heap.faults = {}

\* C6: on the full path of both drivers every slot of Tmp is initialized once
\* and relocated out once, every slot of Out is initialized once by the
\* transposition, and when the call returns all n slots of Tmp are uninitialized
\* and all n slots of Out are initialized.
C6_scratch_and_output_ledger ==
  (FullPath /\ ~thrown /\ pc # "dead") =>
    /\ \A i \in Slots("Tmp") :
         /\ heap.cons["Tmp"][i] <= 1
         /\ heap.gone["Tmp"][i] <= heap.cons["Tmp"][i]
    /\ pc \in {"join", "returned"} =>
         /\ Len(heap.mem["Tmp"]) = n /\ Len(heap.mem[Out]) = n
         /\ \A i \in 1..n :
              /\ heap.cons["Tmp"][i] = 1 /\ heap.gone["Tmp"][i] = 1
              /\ heap.mem["Tmp"][i].st = "uninit"
              /\ heap.mem[Out][i].st = "init"
              /\ heap.cons[Out][i] = (IF variant = "copy" THEN 1 ELSE 2)
              /\ heap.gone[Out][i] = (IF variant = "copy" THEN 0 ELSE 1)

\* the in-place full path has returned for a type relocated by move and destroy
C6_inplace_full_path_returned ==
  variant = "inplace" /\ Returned /\ FullPath /\ typ = "str" /\ n = MaxLen

\* C11: when an allocation of sort or sort_inplace fails, the failure reaches
\* the caller with no progress visible: the caller's sequence holds its original
\* values in their original order.
C11_allocation_failure_leaves_input ==
  pc = "alloc_failed" =>
    /\ Len(heap.mem["A"]) = n
    /\ \A i \in 1..n : heap.mem["A"][i].st = "init" /\ heap.mem["A"][i].key = orig[i].key

\* the value an object of the relocation calls holds
ObjValue(r, o) ==
  IF r.T = "MyTriviallyDestructiveMovable"
  THEN IF o.ptr = Null THEN -1 ELSE r.cells[o.ptr[2]]
  ELSE o.x

\* C7: destructive_move(to, from) with from initialized and to uninitialized
\* leaves to initialized with the value from held and from uninitialized, for
\* every element type; the pointer of a type that points at its own member
\* refers to the member of the object at to.
C7_destructive_move_postcondition ==
  (mv.op = "destructive_move" /\ mv.pc = "done") =>
    /\ mv.to[1].st = "init"
    /\ ObjValue(mv, mv.to[1]) = ValueAt(1)
    /\ mv.from[1].st = "uninit"
    /\ mv.T = "NotTriviallyDestructiveMovable" => mv.to[1].ptr = <<"to", 1>>

\* an object that points at its own member has been relocated
C7_self_pointer_relocated ==
  /\ mv.op = "destructive_move" /\ mv.pc = "done"
  /\ mv.T = "NotTriviallyDestructiveMovable"
  /\ mv.from[1].ptr = <<"from", 1>>

\* C8: the relocation path follows the trait alone: a type that is trivially
\* move constructible and trivially destructible, or whose trait the user
\* specialized to true, is relocated by a copy of its bytes with no move
\* constructor and no destructor run (an owned cell of the free store arrives
\* intact); any other type by one move construction into the destination
\* followed by one destructor call on the source.
C8_path_follows_trait ==
  mv.pc # "off" =>
    \A i \in 1..mv.sz :
      mv.log[i] # <<>> =>
        IF \/ is_trivially_move_constructible(mv.T) /\ is_trivially_destructible(mv.T)
           \/ specialized_true(mv.T)
        THEN /\ mv.log[i] = <<"memcpy">>
             /\ mv.T = "MyTriviallyDestructiveMovable" =>
                  mv.to[i].ptr = <<"cell", i>> /\ mv.cells[i] = ValueAt(i)
        ELSE mv.log[i] = <<"move_ctor", "dtor">>

\* an object of the type with the specialized trait has been relocated
C8_specialized_type_relocated ==
  /\ mv.pc = "done" /\ mv.T = "MyTriviallyDestructiveMovable" /\ mv.sz >= 1
  /\ mv.log[1] # <<>>

\* C9: for every sz >= 0 and every element type of any size,
\* destructive_move_array(to, from, sz) relocates each index of [0, sz) once
\* from from[i] to to[i]; the chunks of the bitwise path are well defined,
\* disjoint and cover [0, sz).
C9_array_relocates_each_index_once ==
  (mv.op = "destructive_move_array" /\ mv.pc \in {"done", "crashed"}) =>
    /\ mv.pc = "done"
    /\ \A i \in 1..mv.sz :
         /\ mv.log[i] \in {<<"memcpy">>, <<"move_ctor", "dtor">>}
         /\ mv.to[i].st = "init"
         /\ ObjValue(mv, mv.to[i]) = ValueAt(i)
         /\ mv.from[i].st = "uninit"

\* C10: when the comparator throws during sort or sort_inplace, after the
\* unwinding (the destructors of R, sample_set, pivots, Tmp and of the caller's
\* sequence included) every slot is initialized with an original value or was
\* uninitialized and never read or destroyed, and none was destroyed twice.
C10_throw_leaves_valid_state ==
  (thrown /\ pc \in {"returned", "dead"}) =>
    /\ heap.faults \cap {"read_uninit", "destroy_uninit"} = {}
    /\ pc = "returned" =>
         \A i \in Slots("A") :
           heap.mem["A"][i].st = "init" =>
             \E j \in 1..n : heap.mem["A"][i] = orig[j]

C13_sorted_input_kept_if_stable ==
  (variant = "copy" /\ Returned /\ Sorted(orig)) =>
    /\ Len(heap.mem["R"]) = n
    /\ \A i \in 1..n : Equivalent(heap.mem["R"][i], orig[i])
    /\ stable => heap.mem["R"] = orig

\* a stable full-path sort of a sorted input holding equivalent elements has
\* returned
C13_stable_sort_of_sorted_returned ==
  /\ variant = "copy" /\ Returned /\ FullPath /\ stable /\ Sorted(orig) /\ n = MaxLen
  /\ \E i \in 1..(n - 1) : Equivalent(orig[i], orig[i + 1])

\* C13: sorting is idempotent: sample_sort applied to an already sorted A (the
\* result of a sort) returns A element for element, with stable true or false,
\* also when A holds equivalent but distinguishable elements.
C13_sorted_input_kept ==
  (variant = "copy" /\ Returned /\ Sorted(orig)) => heap.mem["R"] = orig

\* every element of the caller's sequence is equivalent to every other
AllEqual == \A i \in 1..n : \A j \in 1..n : Equivalent(orig[i], orig[j])

\* the buckets (from 0) that received an element in the transposition
BucketsFilled == {j \in 0..(num_buckets - 1) : bucket_offsets[j + 2] > bucket_offsets[j + 1]}

\* C14 (as the sources have it): on the full path of the copying sort, when all
\* elements of the input are equal, the result holds an element equivalent to
\* the input's at every position, at most two of the buckets receive an element,
\* and with stable = true the result equals the input in its original order.
C14_all_equal_kept_if_stable ==
  (variant = "copy" /\ FullPath /\ AllEqual /\ pc \in {"join", "returned"} /\ ~thrown) =>
    /\ Len(heap.mem["R"]) = n
    /\ \A i \in 1..n : Equivalent(heap.mem["R"][i], orig[i])
    /\ Cardinality(BucketsFilled) <= 2
    /\ stable => heap.mem["R"] = orig

\* a stable full-path sort with three buckets of an all-equal input has returned
C14_all_equal_stable_returned ==
  /\ variant = "copy" /\ Returned /\ FullPath /\ AllEqual /\ stable
  /\ num_buckets = 3 /\ n = MaxLen

\* C14: on the full path of the copying sort, when all elements of the input are
\* equal, the result equals the input with the original order of the elements
\* preserved, and at most two of the buckets receive an element.
C14_all_equal_kept ==
  (variant = "copy" /\ FullPath /\ AllEqual /\ pc \in {"join", "returned"} /\ ~thrown) =>
    /\ heap.mem["R"] = orig
    /\ Cardinality(BucketsFilled) <= 2

\* the work items of the call in argument order
ArgumentOrder ==
  IF fn.f \in {"par_do", "par_do_if"} THEN <<"left", "right">>
  ELSE IF fn.f \in {"par_do3", "par_do3_if"} THEN <<"left", "mid", "right">>
  ELSE [i \in 1..(IF fn.end > fn.start THEN fn.end - fn.start ELSE 0)
          |-> fn.start + i - 1]

\* C15: each fork-join primitive (par_do, parallel_for, par_do3 and the _if
\* wrappers) runs each of its work items exactly once and returns only after all
\* of them have finished; with do_parallel false the items run one after the
\* other in argument order.
C15_each_item_once_before_return ==
  /\ \A x \in {ArgumentOrder[i] : i \in 1..Len(ArgumentOrder)} :
       Cardinality({p \in 1..Len(fn.log) : fn.log[p] = x}) <= 1
  /\ \A p \in 1..Len(fn.log) : \E i \in 1..Len(ArgumentOrder) : fn.log[p] = ArgumentOrder[i]
  /\ fn.pc = "returned" =>
       /\ Len(fn.log) = Len(ArgumentOrder)
       /\ ~fn.do_parallel => fn.log = ArgumentOrder
  /\ ~fn.do_parallel => fn.log = SubSeq(ArgumentOrder, 1, Len(fn.log))

\* par_do3 has returned after its right item ran before its left and mid items
C15_par_do3_returned_right_first ==
  /\ fn.f = "par_do3" /\ fn.pc = "returned"
  /\ fn.log = <<"right", "left", "mid">>

\* C16: for an UninitializedTracker slot under any sequence of construct,
\* copy-construct, copy-assign and destroy operations, construction leaves the
\* slot initialized, destruction leaves it uninitialized, and an assertion fails
\* whenever a slot is destroyed while uninitialized, is the source of a copy or
\* move while uninitialized, or is either side of an assignment while
\* uninitialized.
C16_tracker_flags_and_asserts ==
  LET last == fn.last
      failed == fn.pc = "aborted"
  IN  /\ (last.op = "construct" /\ ~failed) => fn.slots[last.to].initialized
      /\ (last.op = "destroy" /\ ~failed) => ~fn.slots[last.to].initialized
      /\ (last.op = "destroy" /\ ~last.to_was) => failed
      /\ (last.op \in {"copy", "move"} /\ ~last.from_was) => failed
      /\ (last.op \in {"copy_assign", "move_assign"} /\ (~last.to_was \/ ~last.from_was))
           => failed

\* number of set flags
SetFlags(fl) == Cardinality({i \in 1..Len(fl) : fl[i]})

RECURSIVE Concat(_)
Concat(ss) == IF ss = <<>> THEN <<>> ELSE Head(ss) \o Concat(Tail(ss))

\* C17: partition_at(R, StartFlags), with StartFlags of the length of R, returns
\* the partitions of R marked by the start flags (consecutive pieces of R, a new
\* one starting at every set flag), and the number of returned subsequences is
\* always one more than the number of set flags.
C17_partition_at_one_more_than_flags ==
  (fn.f = "partition_at" /\ fn.pc = "done") =>
    /\ Len(fn.result) = SetFlags(fn.StartFlags) + 1
    /\ Concat(fn.result) = fn.R
    /\ \A i \in 2..Len(fn.result) :
         fn.StartFlags[Len(Concat(SubSeq(fn.result, 1, i - 1))) + 1]

\* the bytes of the file in the clamped range of a call
RequestedBytes ==
  LET start1 == Min(fn.start, fn.length)
      end1 == IF fn.end = 0 \/ fn.end > fn.length THEN fn.length ELSE fn.end
  IN  [i \in 1..(IF end1 > start1 THEN end1 - start1 ELSE 0) |-> ByteAt(start1 + i - 1)]

\* C18: char_seq_from_file(filename, start, end) returns exactly the requested
\* bytes of the file: the full file when end is zero or larger than the file, an
\* empty sequence when start is past the end of the file, and for every start
\* and end a sequence as long as the number of file bytes in the clamped range.
C18_char_seq_from_file_returns_range ==
  (fn.f = "char_seq_from_file" /\ fn.pc = "done" /\ fn.opens) =>
    /\ fn.outcome = "returned"
    /\ fn.result = RequestedBytes

\* get_bucket_counts has run on a non-empty block and a non-empty pivot sequence
Counted == fn.f = "get_bucket_counts" /\ fn.pc = "done" /\ Len(fn.sA) > 0 /\ Len(fn.sB) > 0

\* the bucket (from 0) of the element at position p of the block, by the counts cs
BucketOf(cs, p) ==
  CHOOSE j \in 0..(Len(cs) - 1) :
    /\ SumSeq(SubSeq(cs, 1, j)) < p
    /\ p <= SumSeq(SubSeq(cs, 1, j + 1))

\* C19: for a non-empty sorted block A, a non-empty sorted pivot sequence P and a
\* count slice C of length |P| + 1, get_bucket_counts writes every entry of C,
\* never writes outside C (its asserts hold), the entries sum to |A|, run j of A
\* by the counts holds only elements a with not less(a, P[j-1]) (j > 0) and not
\* less(P[j], a) (j < |P|), and the bucket of an element is the one it gets as a
\* block of its own: equivalent elements fall in the same bucket whatever block
\* they come from.
C19_counts_cut_block_by_pivots ==
  Counted =>
    /\ \A j \in 1..Len(fn.sC) : fn.sC[j] >= 0
    /\ \A j \in fn.asserts : j <= Len(fn.sC)
    /\ SumSeq(fn.sC) = Len(fn.sA)
    /\ \A p \in 1..Len(fn.sA) :
         LET j == BucketOf(fn.sC, p)
         IN  /\ j > 0 => ~less(fn.sA[p], fn.sB[j])
             /\ j < Len(fn.sB) => ~less(fn.sB[j + 1], fn.sA[p])
             /\ get_bucket_counts(<<fn.sA[p]>>, fn.sB, fn.sC)[j + 1] = 1

\* a block with equivalent elements was counted against pivots of which two are
\* equivalent, and three buckets received elements
C19_counted_into_three_buckets ==
  /\ Counted
  /\ Cardinality({j \in 1..Len(fn.sC) : fn.sC[j] > 0}) = 3
  /\ \E j \in 1..(Len(fn.sB) - 1) : Equivalent(fn.sB[j], fn.sB[j + 1])

\* the elements of the block that fall in bucket j (from 0), as positions
RunOf(j) == {p \in 1..Len(fn.sA) : BucketOf(fn.sC, p) = j}

\* C20 (as the source has it): when two adjacent pivots are equal, the bucket
\* between them holds only elements equivalent to these pivots, and after the
\* first two of a run of equal pivots it holds every such element of the block;
\* it is empty only for a block with no such element.
C20_equal_pivots_bucket_holds_equivalents ==
  Counted =>
    \A j \in 1..(Len(fn.sB) - 1) :
      Equivalent(fn.sB[j], fn.sB[j + 1]) =>
        /\ \A p \in RunOf(j) : Equivalent(fn.sA[p], fn.sB[j])
        /\ (j = 1 \/ less(fn.sB[j - 1], fn.sB[j])) =>
             RunOf(j) = {p \in 1..Len(fn.sA) : Equivalent(fn.sA[p], fn.sB[j])}

\* a block with an element equivalent to two equal adjacent pivots was counted,
\* and the bucket between the two pivots received it
C20_equal_pivots_bucket_filled ==
  /\ Counted
  /\ \E j \in 1..(Len(fn.sB) - 1) :
       Equivalent(fn.sB[j], fn.sB[j + 1]) /\ fn.sC[j + 1] > 0

\* C20: when two adjacent pivots are equal, the count merge yields an empty
\* bucket between them: for every sorted block the count of the bucket delimited
\* by the two equal pivots is 0.
C20_equal_pivots_bucket_empty ==
  Counted =>
    \A j \in 1..(Len(fn.sB) - 1) :
      Equivalent(fn.sB[j], fn.sB[j + 1]) => fn.sC[j + 1] = 0

\* the slots of the output that make up bucket j (from 0)
BucketSlots(j) == (bucket_offsets[j + 1] + 1)..bucket_offsets[j + 2]

\* C21: in the copying driver every bucket j with 0 < j < k-1 whose final sort
\* is skipped, because pivots[j-1] is not less than pivots[j], holds only
\* elements equivalent to that pivot (possibly none), in a run of two or of
\* three equal adjacent pivots; the output is sorted all the same.
C21_skipped_bucket_holds_pivot_equivalents ==
  (variant = "copy" /\ FullPath /\ pc \in {"buckets", "join"} /\ ~thrown) =>
    /\ \A j \in 1..(num_buckets - 2) :
         ~bucket_is_sorted_again(j, num_buckets, heap.mem["pivots"]) =>
           \A p \in BucketSlots(j) :
             /\ heap.mem["R"][p].st = "init"
             /\ Equivalent(heap.mem["R"][p], heap.mem["pivots"][j])
    /\ pc = "join" => Sorted(heap.mem["R"])

\* the buckets are done with three equal pivots: both middle buckets skipped,
\* the first of them holding an element, between a filled first and last bucket
C21_three_equal_pivots_joined ==
  /\ variant = "copy" /\ pc = "join" /\ ~thrown /\ num_buckets = 4
  /\ ~bucket_is_sorted_again(1, num_buckets, heap.mem["pivots"])
  /\ ~bucket_is_sorted_again(2, num_buckets, heap.mem["pivots"])
  /\ BucketSlots(1) # {}
  /\ BucketSlots(3) # {}

\* the transposition has just run
Transposed == FullPath /\ pc = "buckets" /\ bucketsDone = {} /\ ~thrown

\* the count of block b for bucket j (both from 0), and its sums
CountOf(b, j) == counts[b * num_buckets + j + 1]
CountsAbove(b, j) == SumSeq([bb \in 1..b |-> CountOf(bb - 1, j)])
CountsLeft(b, j) == SumSeq([jj \in 1..j |-> CountOf(b, jj - 1)])

\* C22: after the transpose, bucket_offsets are the exclusive prefix sums of the
\* column sums of the count matrix, from 0 to n, and sub-run (b, j), read from
\* b*block_size + sum of counts[b, j'] for j' < j, is found at bucket_offsets[j]
\* + sum of counts[b', j] for b' < b: range j of the output holds exactly the
\* elements counted into bucket j, by block index and in each block's order.
C22_transpose_groups_blocks_by_bucket ==
  [][(pc = "transpose" /\ pc' = "buckets") =>
       /\ Len(bucket_offsets') = num_buckets + 1
       /\ bucket_offsets'[1] = 0
       /\ bucket_offsets'[num_buckets + 1] = n
       /\ \A j \in 0..(num_buckets - 1) :
            bucket_offsets'[j + 2] = bucket_offsets'[j + 1] + CountsAbove(num_blocks, j)
       /\ \A b \in 0..(num_blocks - 1) : \A j \in 0..(num_buckets - 1) :
            \A t \in 1..CountOf(b, j) :
              LET from == b * block_size + CountsLeft(b, j) + t
                  to == bucket_offsets'[j + 1] + CountsAbove(b, j) + t
              IN  /\ heap.mem["Tmp"][from].st = "init"
                  /\ heap'.mem[Out][to] = heap.mem["Tmp"][from]
                  /\ heap'.mem["Tmp"][from].st = "uninit"]_vars

\* the transpose has run on counts that put elements of both blocks into one
\* bucket and elements of one block into two buckets
C22_transposed_shared_bucket ==
  /\ Transposed /\ num_buckets = 3
  /\ \E j \in 0..(num_buckets - 1) : CountOf(0, j) > 0 /\ CountOf(1, j) > 0
  /\ \E b \in 0..(num_blocks - 1) :
       Cardinality({j \in 0..(num_buckets - 1) : CountOf(b, j) > 0}) >= 2

\* two tasks touch one slot and at least one of them writes it
Conflict(s, t) == \E x \in s : \E y \in t : x.arr = y.arr /\ x.idx = y.idx /\ (x.w \/ y.w)

C24_inplace_sampling_keeps_permutation ==
  (variant = "inplace" /\ FullPath /\ ~thrown) =>
    /\ (pc = "swap" /\ swap_i < sample_set_size) =>
         \A h \in Hashes : swap_i <= swap_index(swap_i, h) /\ swap_index(swap_i, h) < n
    /\ pc \in {"swap", "sortsample"} \/ (pc = "blocks" /\ blocksDone = {}) =>
         /\ IsPerm(heap.mem["A"], orig)
         /\ heap.faults = {}
    /\ (pc = "blocks" /\ blocksDone = {}) =>
         /\ swap_i = sample_set_size
         /\ Sorted(SubSeq(heap.mem["A"], 1, sample_set_size))

\* the sampling has swapped a later element to the front and sorted the prefix
C24_sampled_from_the_back ==
  /\ variant = "inplace" /\ FullPath /\ ~thrown /\ pc = "blocks" /\ blocksDone = {}
  /\ heap.mem["A"][1].id = n
  /\ sample_set_size = 2

\* C25: in the in-place driver the pivots, references into the sorted sample
\* prefix of the input, stay where they are during bucket counting: when the
\* last count merge, that of the sample block, has finished, no slot a pivot
\* refers to has been moved, relocated or destroyed.
C25_pivots_stationary_until_counted ==
  (variant = "inplace" /\ FullPath /\ ~thrown /\ pc \in {"blocks", "sampleblock", "transpose"}) =>
    \A i \in 1..(num_buckets - 1) :
      /\ Pivots(heap)[i].st = "init"
      /\ heap.gone["A"][stride * (i - 1) + 1] = 0

\* a driver has derived its parameters
Derived == fn.f \in {"sample_sort_", "sample_sort_inplace_"} /\ fn.pc = "derived"

IsPowerOfTwo(x) == \E e \in 0..30 : x = 2 ^ e

\* C26: for every n >= 16384 and each element class both drivers derive sqrt =
\* floor(sqrt(n)), k = sqrt/bucket_quotient + 1, B = the least power of two not
\* below sqrt/block_quotient + 1 and block_size = ceil(n/B), with bucket_quotient
\* 2/3/4 and block_quotient 3/3/4 for pointer/large/other; B is a power of two
\* and B*block_size >= n.
C26_parameters_by_class ==
  Derived =>
    LET bucket_q == CASE fn.class = "pointer" -> 2 [] fn.class = "large" -> 3 [] OTHER -> 4
        block_q == CASE fn.class = "pointer" -> 3 [] fn.class = "large" -> 3 [] OTHER -> 4
        least == (fn.sqrt \div block_q) + 1
    IN  /\ fn.sqrt * fn.sqrt <= fn.n /\ fn.n < (fn.sqrt + 1) * (fn.sqrt + 1)
        /\ fn.num_buckets = (fn.sqrt \div bucket_q) + 1
        /\ IsPowerOfTwo(fn.num_blocks)
        /\ fn.num_blocks >= least /\ fn.num_blocks < 2 * least
        /\ (fn.block_size - 1) * fn.num_blocks < fn.n
        /\ fn.n <= fn.block_size * fn.num_blocks

\* the parameters are derived for a pointer type with sqrt/3 + 1 a power of two
C26_derived_at_power_of_two ==
  /\ Derived /\ fn.class = "pointer" /\ fn.n = 383 * 383
  /\ fn.num_blocks = 128 /\ fn.num_buckets = 192

\* C27: for every n >= 16384 and each element class the three assertions of
\* the in-place driver hold: sample_set_size (= block_size) >= num_buckets - 1,
\* stride = floor(sample_set_size / (num_buckets - 1)) >= 1 with a non-zero
\* divisor, and stride*i < sample_set_size for every i in [0, num_buckets - 1).
C27_inplace_asserts_hold ==
  (Derived /\ fn.f = "sample_sort_inplace_") =>
    /\ fn.asserts = {}
    /\ fn.sample_set_size = fn.block_size
    /\ fn.num_buckets - 1 > 0
    /\ fn.sample_set_size >= fn.num_buckets - 1
    /\ fn.stride = fn.sample_set_size \div (fn.num_buckets - 1)
    /\ fn.stride >= 1
    /\ fn.stride * (fn.num_buckets - 2) < fn.sample_set_size

\* the in-place parameters are derived at the threshold for the class with the
\* most buckets
C27_inplace_derived_at_threshold ==
  /\ Derived /\ fn.f = "sample_sort_inplace_" /\ fn.class = "pointer"
  /\ fn.n = QUICKSORT_THRESHOLD
  /\ fn.num_buckets = 65 /\ fn.stride = 4

\* C28: for every n >= 16384 and each element class every row of the count
\* matrix is written before the transpose reads it: the block loop yields B
\* non-empty blocks in the copying driver and B - 1 non-empty blocks beside the
\* sample block in place, that is (B - 1)*block_size < n, and there is a pivot,
\* so get_bucket_counts never takes its early return.
C28_every_count_row_written ==
  Derived =>
    /\ (fn.num_blocks - 1) * fn.block_size < fn.n
    /\ fn.blocks.count = (IF fn.f = "sample_sort_" THEN fn.num_blocks ELSE fn.num_blocks - 1)
    /\ fn.blocks.last > 0 /\ fn.blocks.last <= fn.block_size
    /\ fn.f = "sample_sort_inplace_" => fn.sample_set_size > 0
    /\ fn.num_buckets - 1 > 0

\* the in-place driver's blocks are derived with a last block shorter than the
\* others
C28_short_last_block ==
  /\ Derived /\ fn.f = "sample_sort_inplace_"
  /\ fn.blocks.last < fn.block_size
  /\ fn.blocks.count = fn.num_blocks - 1

\* ---------------------------------------------------------------- C29
AtomicCalls(f) == fn.f = f /\ DOMAIN fn = {"f", "a", "initial", "calls", "writes"}

AllReturned == \A t \in Callers : fn.calls[t].pc = "done"

RECURSIVE SumOver(_, _)
SumOver(bs, S) ==
  IF S = {} THEN 0
  ELSE LET t == CHOOSE x \in S : TRUE IN bs[t].b + SumOver(bs, S \ {t})

\* C29: once every concurrent write_add(a, b_i) on the same atomic has
\* returned, a holds its initial value plus the sum of all b_i in T's
\* arithmetic, whatever the interleaving and however many compare-exchanges
\* failed; and every call made exactly one store.
C29_write_add_loses_no_update ==
  (AtomicCalls("write_add") /\ AllReturned) =>
     /\ fn.a = (fn.initial + SumOver(fn.calls, Callers)) % (2 ^ T_bits)
     /\ Len(fn.writes) = Cardinality(Callers)

\* every call has returned, one of them after a compare-exchange that failed
\* because another call had stored in between, and the sum has wrapped
C29_returned_after_lost_race ==
  /\ AtomicCalls("write_add") /\ AllReturned
  /\ \E t \in Callers : fn.calls[t].oldV # fn.initial /\ fn.writes[1].by # t
  /\ \E i \in 1..Len(fn.writes) : fn.writes[i].to < fn.writes[i].from
  /\ \A t \in Callers : fn.calls[t].b = 1

\* ---------------------------------------------------------------- C30
RECURSIVE LeastOf(_)
LeastOf(S) == LET x == CHOOSE y \in S : TRUE
              IN IF S = {x} THEN x ELSE Min(x, LeastOf(S \ {x}))

Replaced(t) == \E i \in 1..Len(fn.writes) : fn.writes[i].by = t

\* C30: under concurrent write_min(a, b_i, less) calls the stored value only
\* ever goes down; once all calls have returned, a holds the least of its
\* initial value and the b_i; a call returns true exactly when its own
\* compare-exchange stored its b_i, and a call that returns false last saw
\* a stored value not greater than its b_i.
C30_write_min_keeps_least ==
  AtomicCalls("write_min") =>
     /\ \A i \in 1..Len(fn.writes) :
           /\ fn.writes[i].to < fn.writes[i].from
           /\ fn.writes[i].to = fn.calls[fn.writes[i].by].b
     /\ fn.a <= fn.initial
     /\ \A t \in Callers :
           fn.calls[t].pc = "done" =>
              /\ fn.calls[t].r <=> Replaced(t)
              /\ ~fn.calls[t].r => ~std_less(fn.calls[t].b, fn.calls[t].c)
              /\ fn.a <= fn.calls[t].b
     /\ AllReturned =>
           fn.a = LeastOf({fn.initial} \cup {fn.calls[t].b : t \in Callers})

\* all calls returned: two of them replaced the value one after the other,
\* the third returned false on meeting a value equal to its own b
C30_two_replaced_one_refused ==
  /\ AtomicCalls("write_min") /\ AllReturned
  /\ Len(fn.writes) = 2
  /\ \E t \in Callers : ~fn.calls[t].r /\ fn.calls[t].c = fn.calls[t].b

====
